---- MODULE Spec2Model ----
(***************************************************************************)
(* Signature validation orchestrator of signature-valn-api                 *)
(* (src/signature-valn-api/src/main.py): process_signature_validation, the *)
(* tenacity retry policy retry_config that wraps each outbound call, and   *)
(* the error classifier get_error_message.                                  *)
(***************************************************************************)
EXTENDS Integers, Sequences, FiniteSets, TLC

VARIABLES
    pc,             \* position of process_signature_validation
    request,        \* the SignatureValidationRequest
    env,            \* process environment (os.getenv)
    documents,      \* response.json() of the export-ids call
    idx,            \* index of the list entry of the for loop (1-based)
    source_files,   \* local counters of the run
    stored,
    errored,
    unknown,
    attempt_number, \* tenacity retry_state.attempt_number of the running call
    sig_result,     \* result of call_signature_api for the current entry
    response,       \* the list returned by process_signature_validation
    escaped,        \* exception that left process_signature_validation
    call,           \* the wrapped call last started: operation and how it ended
    attemptLog,     \* history: outcome of every invocation of that call
    warnings,       \* history: before_sleep warnings logged for that call
    slept,          \* history: seconds slept before each retry of that call
    appended,       \* history: notes the document store has appended in that call
    issued,         \* history: outbound operations invoked so far in the run
    trail,          \* history: per list entry, its finished steps and counter increments
    abortCause,     \* history: exception that reached the outer handlers
    queue,          \* messages on the signature-validation queue
    delivered,      \* history: the last delivery to queue_trigger and what it did
    deliveries,     \* history: number of deliveries so far
    enqueued,       \* history: number of messages clients have put on the queue
    clsArgs,        \* arguments of a call of get_error_message
    clsResult,      \* what that call returned
    sr_response,    \* argument of a call of parse_response
    notes,          \* what that call returned or raised
    pending_callbacks,    \* the three lists of the CallbackManager
    completed_callbacks,
    failed_callbacks,
    callback,       \* the record the background thread has popped and is executing
    worker,         \* position of the background thread (_process_callbacks)
    running,        \* CallbackManager._running
    now,            \* the clock (datetime.utcnow), in seconds
    reaper,         \* locals of a call of clear_completed_callbacks under way
    cbCall,         \* history: the last call of a method of the CallbackManager
    created         \* history: number of callback records created so far

\* state of one run of process_signature_validation
runVars == <<pc, request, env, documents, idx, source_files, stored, errored,
             unknown, attempt_number, sig_result, response, escaped, call,
             attemptLog, warnings, slept, appended, issued, trail, abortCause>>

\* state of the queue trigger
queueVars == <<queue, delivered, deliveries, enqueued>>

\* state of the calls of the two pure functions
classifierVars == <<clsArgs, clsResult>>

interpreterVars == <<sr_response, notes>>

\* state of the CallbackManager and its background thread
callbackVars == <<pending_callbacks, completed_callbacks, failed_callbacks,
                  callback, worker, running, now, reaper, cbCall, created>>

vars == <<pc, request, env, documents, idx, source_files, stored, errored,
          unknown, attempt_number, sig_result, response, escaped, call,
          attemptLog, warnings, slept, appended, issued, trail, abortCause,
          queue, delivered, deliveries, enqueued,
          clsArgs, clsResult, sr_response, notes,
          pending_callbacks, completed_callbacks, failed_callbacks,
          callback, worker, running, now, reaper, cbCall, created>>

(***************************************************************************)
(* Bounds of the model                                                     *)
(***************************************************************************)
MaxDocs == 3

(***************************************************************************)
(* Program constants                                                       *)
(***************************************************************************)
MaxAttempts == 5

\* Python None
NoneVal == "<None>"

\* variant: tests "v is None" and lets the empty string through
Falsy_NoneOnly(v) == v = NoneVal

\* "not v" for a string-valued key or environment variable
Falsy(v) == v \in {NoneVal, ""}

\* None for an integer-valued id (a JSON null or an absent key read by .get)
NoneId == -1

\* variant: only 0 counts as a missing id
FalsyId_ZeroOnly(v) == v = 0

\* "not v" for an integer-valued id
FalsyId(v) == v \in {NoneId, 0}

(***************************************************************************)
(* Exceptions.  type is the exact class, status_code the code of the       *)
(* response an HTTPStatusError carries, wraps the exact class of the       *)
(* last attempt's exception inside a tenacity RetryError.                  *)
(***************************************************************************)
Exc(t, s) == [type |-> t, status_code |-> s, wraps |-> ""]

NoExc == Exc("", 0)

\* no retry-wrapped call has been started.  value is the "value" of the json
\* body the call sends (NoneVal: it sends none)
NoCall == [op |-> "", doc |-> 0, result |-> "", raised |-> NoExc, value |-> NoneVal]

HTTPStatusError(s) == Exc("HTTPStatusError", s)

RetryErrorOf(x) == [type |-> "RetryError", status_code |-> x.status_code, wraps |-> x.type]

\* e.last_attempt.exception()
LastAttemptException(e) == Exc(e.wraps, e.status_code)

\* isinstance(x, cls) over the class hierarchy of httpx, json and builtins
Bases(t) ==
    CASE t = "HTTPStatusError" -> {"HTTPStatusError", "HTTPError", "Exception"}
      [] t = "RequestError"    -> {"RequestError", "HTTPError", "Exception"}
      [] t = "ConnectError"    -> {"ConnectError", "NetworkError", "TransportError",
                                   "RequestError", "HTTPError", "Exception"}
      [] t = "ReadTimeout"     -> {"ReadTimeout", "TimeoutException", "TransportError",
                                   "RequestError", "HTTPError", "Exception"}
      [] t = "JSONDecodeError" -> {"JSONDecodeError", "ValueError", "Exception"}
      [] t = "KeyError"        -> {"KeyError", "LookupError", "Exception"}
      [] t = "RetryError"      -> {"RetryError", "Exception"}
      [] OTHER                 -> {t, "Exception"}

IsInstance(x, cls) == cls \in Bases(x.type)

(***************************************************************************)
(* Error classifier                                                        *)
(***************************************************************************)
HttpDefaultMessage == "HTTP error occurred while processing the request."

\* variant: 403 carries the text of 401
HttpStatusMessage_403As401(status_code) ==
    CASE status_code = 400 -> "Bad request: The server could not understand the request due to invalid data."
      [] status_code = 401 -> "Unauthorized: Invalid API key or authentication credentials."
      [] status_code = 403 -> "Unauthorized: Invalid API key or authentication credentials."
      [] status_code = 404 -> "Not found: The requested resource (e.g., document or smart folder) does not exist."
      [] status_code = 429 -> "Too many requests: Rate limit exceeded, please try again later."
      [] status_code = 500 -> "Server error: The server encountered an internal error."
      [] OTHER             -> HttpDefaultMessage

\* ERROR_MESSAGES[httpx.HTTPStatusError].get(status_code, default)
HttpStatusMessage(status_code) ==
    CASE status_code = 400 -> "Bad request: The server could not understand the request due to invalid data."
      [] status_code = 401 -> "Unauthorized: Invalid API key or authentication credentials."
      [] status_code = 403 -> "Forbidden: Access to the resource is restricted."
      [] status_code = 404 -> "Not found: The requested resource (e.g., document or smart folder) does not exist."
      [] status_code = 429 -> "Too many requests: Rate limit exceeded, please try again later."
      [] status_code = 500 -> "Server error: The server encountered an internal error."
      [] OTHER             -> HttpDefaultMessage

UnexpectedErrorMessage == "Unexpected error: An unknown issue occurred during processing."

\* the value ERROR_MESSAGES holds under the key httpx.HTTPStatusError: a dict, not a str
HttpMessageTable == "<dict of HTTP status messages>"

\* ERROR_MESSAGES.get(t, ERROR_MESSAGES[Exception]) for an exact class t
ERROR_MESSAGES(t) ==
    CASE t = "HTTPStatusError" -> HttpMessageTable
      [] t = "RequestError"    -> "Network error: Failed to connect to the API endpoint."
      [] t = "ReadTimeout"     -> "Timeout: The API request took too long to respond."
      [] t = "JSONDecodeError" -> "Invalid response: The API returned data that could not be parsed."
      [] t = "KeyError"        -> "Unexpected response: The API response is missing required fields."
      [] OTHER                 -> UnexpectedErrorMessage

\* variant: a status_code passed by the caller wins over the one of the cause
get_error_message_ArgumentWins(exception, status_code) ==
    IF IsInstance(exception, "RetryError") /\ exception.wraps # ""
    THEN IF IsInstance(LastAttemptException(exception), "HTTPStatusError")
         THEN HttpStatusMessage(IF status_code # 0 THEN status_code
                                ELSE exception.status_code)
         ELSE ERROR_MESSAGES(exception.wraps)
    ELSE IF IsInstance(exception, "HTTPStatusError") /\ status_code # 0
         THEN HttpStatusMessage(status_code)
         ELSE ERROR_MESSAGES(exception.type)

\* status_code = 0 stands for None: both are falsy in "and status_code"
get_error_message(exception, status_code) ==
    IF IsInstance(exception, "RetryError") /\ exception.wraps # ""
    THEN IF IsInstance(LastAttemptException(exception), "HTTPStatusError")
         THEN HttpStatusMessage(exception.status_code)
         ELSE ERROR_MESSAGES(exception.wraps)
    ELSE IF IsInstance(exception, "HTTPStatusError") /\ status_code # 0
         THEN HttpStatusMessage(status_code)
         ELSE ERROR_MESSAGES(exception.type)

(***************************************************************************)
(* Retry policy (retry_config)                                             *)
(***************************************************************************)
\* variant: retry_if_exception_type(Exception)
Retryable_AnyException(x) == IsInstance(x, "Exception")

\* retry_if_exception_type((HTTPStatusError, RequestError, ReadTimeout))
Retryable(x) ==
    \/ IsInstance(x, "HTTPStatusError")
    \/ IsInstance(x, "RequestError")
    \/ IsInstance(x, "ReadTimeout")

\* arguments of wait_exponential (exp_base is its default)
wait == [multiplier |-> 1, min |-> 2, max |-> 15, exp_base |-> 2]

Min(a, b) == IF a <= b THEN a ELSE b

Max(a, b) == IF a >= b THEN a ELSE b

\* wait_exponential(multiplier=1, min=2, max=15): the seconds to sleep after
\* attempt number n failed
wait_exponential(n) ==
    Max(Max(0, wait.min), Min(wait.multiplier * wait.exp_base ^ (n - 1), wait.max))

\* variant: stops one attempt late
StopAfterAttempt_OneLate(n) == n > MaxAttempts

\* stop_after_attempt(5)
StopAfterAttempt(n) == n >= MaxAttempts

\* What tenacity does after invocation number n of the wrapped function
\* ended with x (NoExc: it returned): "return" its value, "raise" x itself,
\* "exhausted" (raise RetryError from x) or "sleep" and invoke again.
RetryDecision(n, x) ==
    IF x = NoExc THEN "return"
    ELSE IF ~Retryable(x) THEN "raise"
    ELSE IF StopAfterAttempt(n) THEN "exhausted"
    ELSE "sleep"

\* the exception the retrying call raises to its caller
RaisedByRetry(n, x) ==
    IF RetryDecision(n, x) = "exhausted" THEN RetryErrorOf(x) ELSE x

(***************************************************************************)
(* Inputs: requests, environments, and what the outbound calls can answer  *)
(***************************************************************************)
\* confidenceLevel is in thousandths; it is read only when a result attribute
\* is configured, and is the default 0.5 otherwise
Requests ==
    {r \in [taskId : {"t1"}, apiKey : {NoneVal, "", "key"},
            resultAttributeId : {NoneId, 12}, confidenceLevel : {500, 570}] :
        r.resultAttributeId = NoneId <=> r.confidenceLevel = 500}

Environments ==
    [SIGNATURE_API_KEY : {NoneVal, "", "sk"},
     SIGNATURE_RECOGNITION_API : {NoneVal, "https://recognition"}]

\* entries of the export-ids list
DocumentEntries ==
    {[documentId |-> 7, applicationId |-> 3],
     [documentId |-> NoneId, applicationId |-> 3],
     [documentId |-> 7, applicationId |-> NoneId],
     [documentId |-> 0, applicationId |-> 3]}

RECURSIVE SeqsUpTo(_, _)
SeqsUpTo(S, n) ==
    IF n = 0 THEN {<<>>}
    ELSE LET shorter == SeqsUpTo(S, n - 1)
         IN  shorter \cup {Append(q, e) : q \in {r \in shorter : Len(r) = n - 1}, e \in S}

DocumentLists == SeqsUpTo(DocumentEntries, MaxDocs)

\* failures of the export-ids call: raise_for_status, transport, and a
\* failure outside the retried classes
EnumerationFailures ==
    {HTTPStatusError(404), HTTPStatusError(503), Exc("ReadTimeout", 0),
     Exc("InvalidURL", 0)}

\* failures of a per-document call: one of the retried classes, one outside
PerDocumentFailures ==
    {HTTPStatusError(500), Exc("InvalidURL", 0)}

\* recognition results: json body of the recognition endpoint.  score is
\* documentReport.min_confidence_score in thousandths (NoneId: key absent)
SigResults ==
    {[score |-> 555, status_of_Document |-> "Complete", has_pages |-> TRUE],
     [score |-> 570, status_of_Document |-> "OnHold", has_pages |-> TRUE],
     [score |-> 1000, status_of_Document |-> "Foo", has_pages |-> TRUE],
     [score |-> 575, status_of_Document |-> "Complete", has_pages |-> FALSE],
     [score |-> NoneId, status_of_Document |-> "Complete", has_pages |-> TRUE]}

\* failures of the note append: one of the retried classes (the response of
\* the store does not arrive within the timeout), one outside
NoteFailures == {Exc("ReadTimeout", 0), Exc("InvalidURL", 0)}

NoSigResult == [score |-> NoneId, status_of_Document |-> "", has_pages |-> FALSE]

(***************************************************************************)
(* The recognition result interpreter (parse_response)                     *)
(***************************************************************************)
\* page entries of a recognition result
MaxPages == 2

Zone(status, zoneSetting, signerNumber) ==
    [status |-> status, zoneSetting |-> zoneSetting, signerNumber |-> signerNumber]

\* the signatureZones of a page entry: zones that count as unsigned, alone
\* and mixed with zones of each kind that does not
ZoneLists ==
    {<<>>,
     <<Zone("Unsigned", "Required", 1)>>,
     <<Zone("Unsigned", "Required", 2)>>,
     <<Zone("Unsigned", "Required", 2), Zone("Unsigned", "Required", 1)>>,
     <<Zone("Unsigned", "AllowSkip", 3), Zone("Signed", "Required", 4)>>,
     <<Zone("Skipped", "Required", 5), Zone("Unsigned", "Required", 1)>>}

\* page numbers need not differ between the entries of pages
PageNumbers == {1, 2}

Pages == [pageNumber : PageNumbers, signatureZones : ZoneLists]

DocumentStatuses == {"Complete", "Incomplete", "OnHold", "Foo"}

\* recognition results handed to parse_response; the last one has no "pages"
SrResponses ==
    {[has_pages |-> TRUE, status_of_Document |-> st, page_Count |-> Len(p), pages |-> p] :
        st \in DocumentStatuses, p \in SeqsUpTo(Pages, MaxPages)}
    \cup {[has_pages |-> FALSE, status_of_Document |-> "Complete",
           page_Count |-> 1, pages |-> <<>>]}

\* status.lower()
Lower(status) ==
    CASE status = "Complete"   -> "complete"
      [] status = "Incomplete" -> "incomplete"
      [] status = "OnHold"     -> "onhold"
      [] status = "Foo"        -> "foo"
      [] OTHER                 -> status

base_message(sr, taskId) ==
    "Identifi Signature Validation process checked " \o ToString(sr.page_Count)
    \o " pages in the document and assigned status as " \o Lower(sr.status_of_Document)
    \o ". (Reference#: " \o taskId \o ")"

\* variant: every unsigned zone counts, whatever its setting
CountsAsUnsigned_AnySetting(zone) == zone.status = "Unsigned"

\* zone["status"] == "Unsigned" and zone["zoneSetting"] == "Required"
CountsAsUnsigned(zone) == zone.status = "Unsigned" /\ zone.zoneSetting = "Required"

\* the list unsigned_signers built for one page entry
unsigned_signers(zones) ==
    LET sel == SelectSeq(zones, CountsAsUnsigned)
    IN  [i \in 1..Len(sel) |-> ToString(sel[i].signerNumber)]

\* d[k] = v on a dict kept as the sequence of its items in insertion order:
\* an existing key keeps its place and gets the new value
DictSet(d, k, v) ==
    IF \E i \in 1..Len(d) : d[i].key = k
    THEN [i \in 1..Len(d) |-> IF d[i].key = k THEN [key |-> k, value |-> v] ELSE d[i]]
    ELSE Append(d, [key |-> k, value |-> v])

RECURSIVE page_unsigned(_, _)
\* the dict page_unsigned after the loop over the rest of pages
page_unsigned(pages, d) ==
    IF pages = <<>> THEN d
    ELSE LET page == Head(pages)
             us   == unsigned_signers(page.signatureZones)
         IN  page_unsigned(Tail(pages),
                 IF us # <<>> THEN DictSet(d, page.pageNumber, us) ELSE d)

RECURSIVE Join(_, _)
\* sep.join(strs)
Join(strs, sep) ==
    IF strs = <<>> THEN ""
    ELSE IF Len(strs) = 1 THEN strs[1]
    ELSE strs[1] \o sep \o Join(Tail(strs), sep)

unsigned_message(page_num, signers) ==
    "Signer(s) [" \o Join(signers, ",") \o "] on Page " \o ToString(page_num)
    \o " is unsigned."

\* what parse_response raises
Raises(text) ==
    [raised |-> text, text |-> "", page_unsigned |-> <<>>, unsigned_messages |-> <<>>]

\* what parse_response returns
Returns(text, d, msgs) ==
    [raised |-> "", text |-> text, page_unsigned |-> d, unsigned_messages |-> msgs]

parse_response(sr, taskId) ==
    IF ~sr.has_pages
    THEN Raises(get_error_message(Exc("KeyError", 0), 0))
    ELSE IF sr.status_of_Document = "Complete"
    THEN Returns(base_message(sr, taskId), <<>>, <<>>)
    ELSE IF sr.status_of_Document \in {"Incomplete", "OnHold"}
    THEN LET d    == page_unsigned(sr.pages, <<>>)
             msgs == [i \in 1..Len(d) |-> unsigned_message(d[i].key, d[i].value)]
         IN  IF msgs # <<>>
             THEN Returns(base_message(sr, taskId) \o "\n" \o Join(msgs, "  "), d, msgs)
             ELSE Returns(base_message(sr, taskId), d, msgs)
    ELSE Raises("Unknown document status")

\* the recognition result of a run as parse_response reads it (the pages of
\* the results of a run are left empty)
SrResponseOf(sig) ==
    [has_pages |-> sig.has_pages, status_of_Document |-> sig.status_of_Document,
     page_Count |-> 0, pages |-> <<>>]

\* variant: a status that is not known gets the base note
parse_response_raises_PagesOnly(sig) == ~sig.has_pages

\* does parse_response return a note or raise
parse_response_raises(sig) == parse_response(SrResponseOf(sig), "t1").raised # ""

(***************************************************************************)
(* Responses                                                               *)
(***************************************************************************)
SignatureValidationResponse(taskId, status, message, sf, st, er, un) ==
    [taskId |-> taskId, status |-> status, message |-> message,
     sourceFiles |-> sf, stored |-> st, errored |-> er, unknown |-> un]

FailedResponse(message) ==
    SignatureValidationResponse(request.taskId, "Failed", message, 0, 0, 0, 0)

\* variant: Completed whenever nothing errored, entries without ids included
DetermineStatus_IgnoresStored(sf, st, er) ==
    IF er = 0 /\ sf > 0 THEN "Completed"
    ELSE IF sf > 0 THEN "Error"
    ELSE "Failed"

\* "Determine status" at the end of the document loop
DetermineStatus(sf, st, er) ==
    IF st = sf /\ sf > 0 /\ er = 0 THEN "Completed"
    ELSE IF sf > 0 THEN "Error"
    ELSE "Failed"

DetermineMessage(sf, st, er, un) ==
    IF st = sf /\ sf > 0 /\ er = 0
    THEN "Successfully processed all " \o ToString(sf) \o " documents with no errors"
    ELSE IF sf > 0
    THEN "Processed " \o ToString(sf) \o " documents: " \o ToString(st) \o " stored, "
         \o ToString(er) \o " errored, " \o ToString(un) \o " unknown"
    ELSE "No documents found in smart folder"

\* variant: the closing "except Exception" clause is missing
OuterCatches_NoCatchAll(e) ==
    \/ IsInstance(e, "RetryError")
    \/ IsInstance(e, "HTTPStatusError")

\* the three except clauses that close process_signature_validation
OuterCatches(e) ==
    \/ IsInstance(e, "RetryError")
    \/ IsInstance(e, "HTTPStatusError")
    \/ IsInstance(e, "Exception")

\* variant: the handlers classify without the status code of the response
OuterMessage_NoStatusCode(e) == get_error_message(e, 0)

\* the message each of the three clauses puts into the Failed response
OuterMessage(e) ==
    IF IsInstance(e, "RetryError")
    THEN LET cause == LastAttemptException(e)
             status_code == IF IsInstance(cause, "HTTPStatusError") THEN cause.status_code ELSE 0
         IN  get_error_message(e, status_code)
    ELSE IF IsInstance(e, "HTTPStatusError")
    THEN get_error_message(e, e.status_code)
    ELSE get_error_message(e, 0)

\* except clauses around fetch_documents(): what they re-raise
EnumerationReraise(e) ==
    IF IsInstance(e, "RetryError") THEN LastAttemptException(e) ELSE e

\* variant: the except clause names the httpx classes only
PerDocumentCatches_NoRetryError(e) ==
    \/ IsInstance(e, "RequestError")
    \/ IsInstance(e, "ReadTimeout")

\* except (RetryError, httpx.RequestError, httpx.ReadTimeout) of a per-document step
PerDocumentCatches(e) ==
    \/ IsInstance(e, "RetryError")
    \/ IsInstance(e, "RequestError")
    \/ IsInstance(e, "ReadTimeout")

(***************************************************************************)
(* The other components at rest                                            *)
(***************************************************************************)
\* a queue message: body tells whether the text is JSON and of which shape,
\* fields which keys an object carries besides taskId and status
QueueMessage(body, taskId, status, fields, apiKey, message, sf, st, er, un) ==
    [body |-> body, taskId |-> taskId, status |-> status, fields |-> fields,
     apiKey |-> apiKey, message |-> message,
     sourceFiles |-> sf, stored |-> st, errored |-> er, unknown |-> un]

NoMessage == QueueMessage("", NoneVal, NoneVal, "", NoneVal, "", 0, 0, 0, 0)

NoDelivery ==
    [msg |-> NoMessage, origin |-> "", skipped |-> FALSE, ran |-> FALSE,
     results |-> <<>>, accepting |-> FALSE, published |-> <<>>]

QueueIdle ==
    queue = <<>> /\ delivered = NoDelivery /\ deliveries = 0 /\ enqueued = 0

NoArgs == [exception |-> NoExc, status_code |-> 0]

NotClassified == "<not called>"

ClassifierIdle == clsArgs = NoArgs /\ clsResult = NotClassified

NoSrResponse ==
    [has_pages |-> FALSE, status_of_Document |-> "", page_Count |-> 0, pages |-> <<>>]

NoNotes ==
    [raised |-> "", text |-> "", page_unsigned |-> <<>>, unsigned_messages |-> <<>>]

InterpreterIdle == sr_response = NoSrResponse /\ notes = NoNotes

\* no record popped by the background thread
NoCallback ==
    [key |-> 0, id |-> "", status |-> "", retry_count |-> 0, error_message |-> NoneVal,
     completed_at |-> NoneId, next_retry |-> NoneId, posts |-> 0]

\* the answer to a POST: a status code, or what requests.post raised
PostResponse(status_code, raised) == [status_code |-> status_code, raised |-> raised]

NoPost == PostResponse(0, "")

\* the background thread at the top of its loop; post is the history of the
\* answer it handled before it went to sleep
WorkerStart == [pc |-> "polling", wake |-> 0, post |-> NoPost]

\* no call of clear_completed_callbacks under way; max_age_hours and called_at
\* are the history of its argument and of the time it was called
NoReaper ==
    [active |-> FALSE, max_age_hours |-> 0, called_at |-> 0, cutoff_time |-> 0,
     remaining_callbacks |-> <<>>]

NoCbCall == [n |-> 0, op |-> "", arg |-> "", result |-> ""]

\* CallbackManager.__init__
CallbackManagerInit ==
    /\ pending_callbacks = <<>>
    /\ completed_callbacks = <<>>
    /\ failed_callbacks = <<>>
    /\ callback = NoCallback
    /\ worker = WorkerStart
    /\ running = TRUE
    /\ now = 0
    /\ reaper = NoReaper
    /\ cbCall = NoCbCall
    /\ created = 0

(***************************************************************************)
(* State after the request has been received                               *)
(***************************************************************************)
Init ==
    /\ QueueIdle
    /\ ClassifierIdle
    /\ InterpreterIdle
    /\ CallbackManagerInit
    /\ pc = "Init"
    /\ request \in Requests
    /\ env \in Environments
    /\ documents = <<>>
    /\ idx = 0
    /\ source_files = 0
    /\ stored = 0
    /\ errored = 0
    /\ unknown = 0
    /\ attempt_number = 0
    /\ sig_result = NoSigResult
    /\ response = <<>>
    /\ escaped = NoExc
    /\ call = NoCall
    /\ attemptLog = <<>>
    /\ warnings = 0
    /\ slept = <<>>
    /\ appended = 0
    /\ issued = {}
    /\ trail = <<>>
    /\ abortCause = NoExc

(***************************************************************************)
(* Effects shared by the steps                                             *)
(***************************************************************************)
\* What the document store does with one invocation of op that ends with x
\* at the client: how many notes it appends. The POST of add_summary_note
\* appends a note when the store handles it; when the response does not
\* arrive in time the client cannot tell whether it did.
StoreAppends(op, x) ==
    IF op # "add_summary_note" THEN {0}
    ELSE IF x = NoExc THEN {1}
    ELSE IF x.type = "ReadTimeout" THEN {0, 1}
    ELSE {0}

\* One invocation of the retry-wrapped function op, sending value, that ends
\* with x (NoExc: it returned), and what the retry policy makes of it.
Invocation(op, x, value) ==
    LET n == attempt_number + 1
        d == RetryDecision(n, x)
    IN  /\ attempt_number' = IF d = "sleep" THEN n ELSE 0
        /\ attemptLog' = IF attempt_number = 0 THEN <<x>> ELSE Append(attemptLog, x)
        /\ slept' = (IF attempt_number = 0 THEN <<>> ELSE slept)
                     \o (IF d = "sleep" THEN <<wait_exponential(n)>> ELSE <<>>)
        /\ warnings' = (IF attempt_number = 0 THEN 0 ELSE warnings)
                        + (IF d = "sleep" THEN 1 ELSE 0)
        /\ appended' \in {(IF attempt_number = 0 THEN 0 ELSE appended) + k :
                             k \in StoreAppends(op, x)}
        /\ call' = [op |-> op, doc |-> idx, result |-> d,
                    raised |-> IF d \in {"raise", "exhausted"}
                               THEN RaisedByRetry(n, x) ELSE NoExc,
                    value |-> value]
        /\ issued' = issued \cup {op}
        /\ UNCHANGED <<request, env, queueVars, classifierVars, interpreterVars,
                       callbackVars>>

NoInvocation ==
    UNCHANGED <<attempt_number, attemptLog, warnings, slept, appended, call, issued,
                request, env,
                queueVars, classifierVars, interpreterVars, callbackVars>>

\* history events of a list entry (exc: the class of what a step raised itself)
Event(op, result, x) ==
    [op |-> op, result |-> result, exc |-> IF result = "raise" THEN x.type ELSE ""]

Logged(evs) ==
    IF idx \in DOMAIN trail THEN [trail EXCEPT ![idx] = @ \o evs] ELSE trail

\* the retry policy sleeps: the orchestrator stays where it is
Stay ==
    UNCHANGED <<pc, documents, idx, source_files, stored, errored, unknown,
                sig_result, response, escaped, trail, abortCause>>

\* go on with the next step of the same list entry
Goto(p, evs) ==
    /\ pc' = p
    /\ trail' = Logged(evs)
    /\ UNCHANGED <<documents, idx, source_files, stored, errored, unknown,
                   response, escaped, abortCause>>

\* variant: "stored += 1" placed before the note is appended, so that a
\* failed note append counts the entry twice
Bump_StoredBeforeNote(counter, evs) ==
    /\ stored' = IF counter = "stored" \/ pc = "AddingNote" THEN stored + 1 ELSE stored
    /\ errored' = IF counter = "errored" THEN errored + 1 ELSE errored
    /\ unknown' = IF counter = "unknown" THEN unknown + 1 ELSE unknown
    /\ trail' = Logged(evs \o (IF counter # "stored" /\ pc = "AddingNote"
                               THEN <<Event("counter", "stored", NoExc)>> ELSE <<>>)
                           \o <<Event("counter", counter, NoExc)>>)
    /\ idx' = idx + 1
    /\ pc' = "PerDocument"
    /\ sig_result' = NoSigResult
    /\ UNCHANGED <<documents, source_files, response, escaped, abortCause>>

\* "<counter> += 1" followed by the next iteration of the for loop
\* (sig_result is not read again before call_signature_api reassigns it)
Bump(counter, evs) ==
    /\ stored' = IF counter = "stored" THEN stored + 1 ELSE stored
    /\ errored' = IF counter = "errored" THEN errored + 1 ELSE errored
    /\ unknown' = IF counter = "unknown" THEN unknown + 1 ELSE unknown
    /\ trail' = Logged(evs \o <<Event("counter", counter, NoExc)>>)
    /\ idx' = idx + 1
    /\ pc' = "PerDocument"
    /\ sig_result' = NoSigResult
    /\ UNCHANGED <<documents, source_files, response, escaped, abortCause>>

\* return [response]
Return(r) ==
    /\ response' = <<r>>
    /\ pc' = "Done"
    /\ UNCHANGED <<idx, stored, errored, unknown, trail, escaped, abortCause, sig_result>>

\* e leaves the "async with" block and reaches the outer except clauses
AbortRun(e, evs) ==
    /\ abortCause' = e
    /\ response' = IF OuterCatches(e) THEN <<FailedResponse(OuterMessage(e))>> ELSE <<>>
    /\ escaped' = IF OuterCatches(e) THEN NoExc ELSE e
    /\ pc' = "Done"
    /\ trail' = Logged(evs)
    /\ UNCHANGED <<documents, idx, source_files, stored, errored, unknown, sig_result>>

\* variant: a failed content fetch does not end the list entry
PerDocumentFailure_GoesOn(e, evs) ==
    IF pc = "Fetching" /\ PerDocumentCatches(e)
    THEN Goto("Recognizing", evs) /\ UNCHANGED sig_result
    ELSE IF PerDocumentCatches(e) THEN Bump("errored", evs) ELSE AbortRun(e, evs)

\* e is raised inside the try block of a per-document step
PerDocumentFailure(e, evs) ==
    IF PerDocumentCatches(e) THEN Bump("errored", evs) ELSE AbortRun(e, evs)

\* variant: an empty folder is answered as a completed run
EmptyListResponse_Completed(sf, st, er, un) ==
    SignatureValidationResponse(request.taskId, "Completed",
        "Successfully processed all 0 documents with no errors", sf, st, er, un)

\* the response to an empty export-ids list
EmptyListResponse(sf, st, er, un) ==
    SignatureValidationResponse(request.taskId, "Failed",
        "No documents found in smart folder", sf, st, er, un)

(***************************************************************************)
(* Steps of process_signature_validation                                   *)
(***************************************************************************)
\* Init: the three presence checks
ValidateInit ==
    /\ pc = "Init"
    /\ NoInvocation
    /\ IF Falsy(request.apiKey)
       THEN Return(FailedResponse("Identifi API key not provided in request"))
            /\ UNCHANGED <<documents, source_files>>
       ELSE IF Falsy(env.SIGNATURE_API_KEY)
       THEN Return(FailedResponse("Signature API key not configured"))
            /\ UNCHANGED <<documents, source_files>>
       ELSE IF Falsy(env.SIGNATURE_RECOGNITION_API)
       THEN Return(FailedResponse("Signature Recognition API endpoint not configured"))
            /\ UNCHANGED <<documents, source_files>>
       ELSE Goto("Enumerating", <<>>) /\ UNCHANGED sig_result

\* Enumerating: one invocation of fetch_documents(); when it returns, the
\* list is read and the empty list answered
fetch_documents ==
    /\ pc = "Enumerating"
    /\ \E x \in EnumerationFailures \cup {NoExc}, parseable \in BOOLEAN, body \in DocumentLists :
         LET d == RetryDecision(attempt_number + 1, x)
         IN  /\ Invocation("fetch_documents", x, NoneVal)
             /\ CASE d = "sleep" -> Stay
                  [] d = "return" ->
                       IF ~parseable  \* response.json() raises
                       THEN AbortRun(Exc("JSONDecodeError", 0), <<>>)
                       ELSE IF body = <<>>
                       THEN /\ documents' = body
                            /\ source_files' = Len(body)
                            /\ Return(EmptyListResponse(Len(body), stored, errored, unknown))
                       ELSE /\ documents' = body
                            /\ source_files' = Len(body)
                            /\ idx' = 1
                            /\ trail' = [i \in 1..Len(body) |-> <<>>]
                            /\ pc' = "PerDocument"
                            /\ UNCHANGED <<stored, errored, unknown, sig_result,
                                           response, escaped, abortCause>>
                  [] OTHER ->
                       AbortRun(EnumerationReraise(RaisedByRetry(attempt_number + 1, x)), <<>>)

\* head of the for loop: the id check of the next list entry
NextDocument ==
    /\ pc = "PerDocument"
    /\ idx <= Len(documents)
    /\ NoInvocation
    /\ IF FalsyId(documents[idx].documentId) \/ FalsyId(documents[idx].applicationId)
       THEN Bump("unknown", <<>>)
       ELSE Goto("Fetching", <<>>) /\ UNCHANGED sig_result

\* end of the for loop: "Determine status" and return
Aggregate ==
    /\ pc = "PerDocument"
    /\ idx > Len(documents)
    /\ NoInvocation
    /\ Return(SignatureValidationResponse(request.taskId,
            DetermineStatus(source_files, stored, errored),
            DetermineMessage(source_files, stored, errored, unknown),
            source_files, stored, errored, unknown))
    /\ UNCHANGED <<documents, source_files>>

\* Fetching: one invocation of fetch_document_content()
fetch_document_content ==
    /\ pc = "Fetching"
    /\ \E x \in PerDocumentFailures \cup {NoExc} :
         LET d == RetryDecision(attempt_number + 1, x)
             done == <<Event("fetch_document_content", d, x)>>
         IN  /\ Invocation("fetch_document_content", x, NoneVal)
             /\ CASE d = "sleep" -> Stay
                  [] d = "return" -> Goto("Recognizing", done) /\ UNCHANGED sig_result
                  [] OTHER -> PerDocumentFailure(RaisedByRetry(attempt_number + 1, x), done)

\* Recognizing: one invocation of call_signature_api(), whose response.json()
\* runs inside the retried function; when it returns, the confidence score
\* is read from the result
call_signature_api ==
    /\ pc = "Recognizing"
    /\ \E x \in PerDocumentFailures \cup {Exc("JSONDecodeError", 0), NoExc}, body \in SigResults :
         LET d == RetryDecision(attempt_number + 1, x)
             done == <<Event("call_signature_api", d, x)>>
         IN  /\ Invocation("call_signature_api", x, NoneVal)
             /\ CASE d = "sleep" -> Stay
                  [] d = "return" ->
                       IF body.score = NoneId
                       THEN PerDocumentFailure(Exc("KeyError", 0),
                                done \o <<Event("confidence_score", "raise", Exc("KeyError", 0))>>)
                       ELSE Goto("WritingConfidence", done) /\ sig_result' = body
                  [] OTHER -> PerDocumentFailure(RaisedByRetry(attempt_number + 1, x), done)

\* The thousandths m for which the double product (m/1000) * 100 is below
\* the exact one, so that int() of it is one less than m \div 10.
ProductFallsShort == {290, 570, 580}

\* int(min_confidence_score * 100), min_confidence_score in thousandths
IntOfHundredfold(m) ==
    IF m \in ProductFallsShort THEN (m \div 10) - 1 ELSE m \div 10

\* confidence_score = str(int(sig_result['documentReport']['min_confidence_score']*100))
confidence_score(m) == ToString(IntOfHundredfold(m))

\* float(text) of the decimal string of an integer
float(text) == CHOOSE n \in 0..100 : ToString(n) = text

\* variant: the score has to exceed the level
result_value_Exceeds(score, confidenceLevel) ==
    IF float(score) * 10 > confidenceLevel THEN "Y" ELSE "N"

\* 'Y' if float(confidence_score) / 100 >= request.confidenceLevel else 'N'
\* (confidenceLevel in thousandths)
result_value(score, confidenceLevel) ==
    IF float(score) * 10 >= confidenceLevel THEN "Y" ELSE "N"

\* request.resultAttributeId is not None
ResultAttributeConfigured(r) == r.resultAttributeId # NoneId

\* history event: parse_response raised Exception(text)
InterpretationFailed(text) == [op |-> "parse_response", result |-> "raise", exc |-> text]

\* Step 6, first half: parse_response builds the note or raises
InterpretThen(evs) ==
    IF parse_response_raises(sig_result)
    THEN Bump("errored", evs \o
             <<InterpretationFailed(parse_response(SrResponseOf(sig_result), request.taskId).raised)>>)
    ELSE Goto("AddingNote", evs \o <<Event("parse_response", "return", NoExc)>>)
         /\ UNCHANGED sig_result

\* WritingBack: one invocation of update_doc_attribute()
update_doc_attribute ==
    /\ pc = "WritingConfidence"
    /\ \E x \in PerDocumentFailures \cup {NoExc} :
         LET d == RetryDecision(attempt_number + 1, x)
             done == <<Event("update_doc_attribute", d, x)>>
         IN  /\ Invocation("update_doc_attribute", x, confidence_score(sig_result.score))
             /\ CASE d = "sleep" -> Stay
                  [] d = "return" ->
                       IF ResultAttributeConfigured(request)
                       THEN Goto("WritingResult", done) /\ UNCHANGED sig_result
                       ELSE InterpretThen(done)
                  [] OTHER -> PerDocumentFailure(RaisedByRetry(attempt_number + 1, x), done)

\* WritingBack: one invocation of update_result_attribute()
update_result_attribute ==
    /\ pc = "WritingResult"
    /\ \E x \in PerDocumentFailures \cup {NoExc} :
         LET d == RetryDecision(attempt_number + 1, x)
             done == <<Event("update_result_attribute", d, x)>>
         IN  /\ Invocation("update_result_attribute", x,
                            result_value(confidence_score(sig_result.score),
                                         request.confidenceLevel))
             /\ CASE d = "sleep" -> Stay
                  [] d = "return" -> InterpretThen(done)
                  [] OTHER -> PerDocumentFailure(RaisedByRetry(attempt_number + 1, x), done)

\* WritingBack: one invocation of add_summary_note()
add_summary_note ==
    /\ pc = "AddingNote"
    /\ \E x \in NoteFailures \cup {NoExc} :
         LET d == RetryDecision(attempt_number + 1, x)
             done == <<Event("add_summary_note", d, x)>>
         IN  /\ Invocation("add_summary_note", x, NoneVal)
             /\ CASE d = "sleep" -> Stay
                  [] d = "return" -> Bump("stored", done)
                  [] OTHER -> PerDocumentFailure(RaisedByRetry(attempt_number + 1, x), done)

Next ==
    \/ ValidateInit
    \/ fetch_documents
    \/ NextDocument
    \/ Aggregate
    \/ fetch_document_content
    \/ call_signature_api
    \/ update_doc_attribute
    \/ update_result_attribute
    \/ add_summary_note

Spec == Init /\ [][Next]_vars

\* The run is one coroutine: it takes its next step whenever the call it
\* awaits has returned or failed.
SpecLive == Init /\ [][Next]_vars /\ WF_vars(Next)

(***************************************************************************)
(* Vocabulary of the properties                                            *)
(***************************************************************************)
N == Len(documents)

Returned == pc = "Done" /\ Len(response) = 1

ZeroCounters(r) ==
    r.sourceFiles = 0 /\ r.stored = 0 /\ r.errored = 0 /\ r.unknown = 0

IsStep(e) == e.op # "counter"

IsCounter(e) == e.op = "counter"

\* the steps a list entry has finished, and the counters it incremented
StepsOf(i) == SelectSeq(trail[i], IsStep)

CountersOf(i) == SelectSeq(trail[i], IsCounter)

Incremented(i, counter) ==
    \E k \in 1..Len(trail[i]) : trail[i][k] = Event("counter", counter, NoExc)

\* the entry has no documentId or no applicationId
MissingIds(i) ==
    documents[i].documentId = NoneId \/ documents[i].applicationId = NoneId

\* the content fetch of the entry failed on every attempt of the retry policy
FetchFailsEveryAttempt(i) ==
    StepsOf(i) = <<Event("fetch_document_content", "exhausted", NoExc)>>

\* every step of the entry, up to the note append, returned
SucceedsEveryStep(i) ==
    LET st == StepsOf(i)
    IN  /\ st # <<>>
        /\ \A k \in 1..Len(st) : st[k].result = "return"
        /\ st[Len(st)].op = "add_summary_note"

(***************************************************************************)
(* Properties                                                              *)
(***************************************************************************)
\* C1: when the request's apiKey is empty or absent, or one of the two
\* process secrets is unset, the run returns exactly one Failed response
\* with all four counters zero and no outbound call is ever issued.
C1_InitFailFast ==
    (\/ request.apiKey \in {NoneVal, ""}
     \/ env.SIGNATURE_API_KEY = NoneVal
     \/ env.SIGNATURE_RECOGNITION_API = NoneVal)
    => /\ issued = {}
       /\ pc \in {"Init", "Done"}
       /\ escaped = NoExc
       /\ pc = "Init" => response = <<>>
       /\ pc = "Done" => /\ Len(response) = 1
                         /\ response[1].status = "Failed"
                         /\ ZeroCounters(response[1])

C1_Witness ==
    /\ Returned
    /\ request.apiKey = ""
    /\ env.SIGNATURE_API_KEY # NoneVal
    /\ env.SIGNATURE_RECOGNITION_API # NoneVal
    /\ response[1].status = "Failed"

\* C2: in a run over N >= 1 entries of which K lack an id, M fail the content
\* fetch on every attempt and all others succeed at every step, the response
\* has unknown = K, errored = M, stored = N-K-M, sourceFiles = N, and status
\* Completed when K = M = 0 and Error when M > 0.
C2_CounterOutcome ==
    (/\ pc = "Done"
     /\ N >= 1
     /\ \A i \in 1..N : MissingIds(i) \/ FetchFailsEveryAttempt(i) \/ SucceedsEveryStep(i))
    => LET K == Cardinality({i \in 1..N : MissingIds(i)})
           M == Cardinality({i \in 1..N : FetchFailsEveryAttempt(i)})
       IN  /\ Len(response) = 1
           /\ response[1].unknown = K
           /\ response[1].errored = M
           /\ response[1].stored = N - K - M
           /\ response[1].sourceFiles = N
           /\ (K = 0 /\ M = 0) => response[1].status = "Completed"
           /\ M > 0 => response[1].status = "Error"

C2_Witness ==
    /\ Returned
    /\ N = 3
    /\ \E i, j, k \in 1..N :
         MissingIds(i) /\ FetchFailsEveryAttempt(j) /\ SucceedsEveryStep(k)
    /\ response[1].stored = 1
    /\ response[1].status = "Error"

\* C3: at every point of the run and in every response, stored + errored +
\* unknown <= sourceFiles, the four counters are non-negative, and every
\* list entry has incremented at most one of stored, errored, unknown, by one.
C3_CounterInvariant ==
    /\ stored + errored + unknown <= source_files
    /\ stored >= 0 /\ errored >= 0 /\ unknown >= 0 /\ source_files >= 0
    /\ \A i \in 1..Len(trail) : Len(CountersOf(i)) <= 1
    /\ stored = Cardinality({i \in 1..Len(trail) : Incremented(i, "stored")})
    /\ errored = Cardinality({i \in 1..Len(trail) : Incremented(i, "errored")})
    /\ unknown = Cardinality({i \in 1..Len(trail) : Incremented(i, "unknown")})
    /\ \A k \in 1..Len(response) :
         /\ response[k].stored + response[k].errored + response[k].unknown
              <= response[k].sourceFiles
         /\ response[k].stored >= 0 /\ response[k].errored >= 0
         /\ response[k].unknown >= 0 /\ response[k].sourceFiles >= 0

C3_Witness ==
    /\ Returned
    /\ response[1].stored = 1 /\ response[1].errored = 1 /\ response[1].unknown = 1
    /\ response[1].sourceFiles = 3

\* a retry of the entry's call was given up after the last attempt
ExhaustsRetries(i) ==
    \E k \in 1..Len(trail[i]) : trail[i][k].result = "exhausted"

\* the loop has dealt with the entry
Processed(i) == CountersOf(i) # <<>>

\* C4: when a per-document call exhausts its retries, the run increments
\* errored once for that entry, issues no further call for it, goes on to
\* process every remaining entry, and the final response reports
\* sourceFiles = N.
C4_NoCrossDocumentAbort ==
    \A i \in 1..Len(trail) :
        ExhaustsRetries(i)
        => /\ CountersOf(i) = <<Event("counter", "errored", NoExc)>>
           /\ StepsOf(i)[Len(StepsOf(i))].result = "exhausted"
           /\ call.doc = i => call.result = "exhausted"
           /\ pc = "Done" => /\ \A j \in (i + 1)..N : Processed(j)
                             /\ Len(response) = 1
                             /\ response[1].sourceFiles = N

\* the recognition endpoint answered the entry with a body that is not JSON,
\* or with a result without documentReport.min_confidence_score
MalformedRecognition(i) ==
    \E k \in 1..Len(trail[i]) :
        \/ trail[i][k] = Event("call_signature_api", "raise", Exc("JSONDecodeError", 0))
        \/ trail[i][k] = Event("confidence_score", "raise", Exc("KeyError", 0))

\* C5: a malformed recognition result counts the entry in errored, keeps the
\* counters of the earlier entries and does not abort the run.
C5_MalformedRecognitionIsPerDocument ==
    \A i \in 1..Len(trail) :
        MalformedRecognition(i)
        => /\ Incremented(i, "errored")
           /\ abortCause = NoExc
           /\ Returned => response[1].sourceFiles = N

\* the run has left the for loop at its end
ReachedEndOfLoop == pc = "Done" /\ idx > N

\* C6: at the end of the document loop the status is Completed iff
\* stored = sourceFiles, sourceFiles > 0 and errored = 0; otherwise Error
\* when sourceFiles > 0 and Failed when sourceFiles = 0.
C6_AggregationRule ==
    ReachedEndOfLoop
    => /\ Len(response) = 1
       /\ response[1].sourceFiles = source_files
       /\ response[1].stored = stored
       /\ response[1].errored = errored
       /\ response[1].unknown = unknown
       /\ response[1].status = "Completed"
            <=> (response[1].stored = response[1].sourceFiles
                 /\ response[1].sourceFiles > 0 /\ response[1].errored = 0)
       /\ response[1].status # "Completed"
            => response[1].status =
                 IF response[1].sourceFiles > 0 THEN "Error" ELSE "Failed"

C6_Witness ==
    /\ ReachedEndOfLoop
    /\ response[1].status = "Error"
    /\ response[1].errored = 0
    /\ response[1].stored = 2

\* the listing call gave up after its last attempt, or raised a failure
\* the retry policy does not retry
EnumerationFailed ==
    call.op = "fetch_documents" /\ call.result \in {"exhausted", "raise"}

\* C7: when the listing call fails on all 5 attempts or with a non-retryable
\* failure, the run issues no per-document call and returns one Failed
\* response with zero counters whose message is the classifier's message for
\* the underlying cause (for an HTTP status failure, that of its status code).
C7_EnumerationFailureAborts ==
    EnumerationFailed
    => LET cause == attemptLog[Len(attemptLog)]
       IN  /\ call.result = "exhausted" => Len(attemptLog) = 5
           /\ issued = {"fetch_documents"}
           /\ pc = "Done"
           /\ response = <<[taskId |-> request.taskId, status |-> "Failed",
                            message |-> IF cause.type = "HTTPStatusError"
                                        THEN HttpStatusMessage(cause.status_code)
                                        ELSE get_error_message(cause, 0),
                            sourceFiles |-> 0, stored |-> 0, errored |-> 0,
                            unknown |-> 0]>>

C7_Witness ==
    /\ EnumerationFailed
    /\ call.result = "exhausted"
    /\ attemptLog[Len(attemptLog)] = HTTPStatusError(404)
    /\ Returned
    /\ response[1].message = "Not found: The requested resource (e.g., document or smart folder) does not exist."

\* the listing call returned a parseable, empty list
EmptyEnumeration ==
    /\ call.op = "fetch_documents" /\ call.result = "return"
    /\ abortCause = NoExc
    /\ documents = <<>>

\* C8: an empty list ends the run with status Failed, the message 'No
\* documents found in smart folder', all counters zero, and no fetch,
\* recognition, attribute or note call.
C8_EmptyEnumeration ==
    EmptyEnumeration
    => /\ pc = "Done"
       /\ response = <<[taskId |-> request.taskId, status |-> "Failed",
                        message |-> "No documents found in smart folder",
                        sourceFiles |-> 0, stored |-> 0, errored |-> 0,
                        unknown |-> 0]>>
       /\ issued = {"fetch_documents"}

C8_Witness == EmptyEnumeration /\ Returned /\ idx = 0

\* C9: whatever the outbound calls answer, the run returns a list of exactly
\* one response whose status is Completed, Error or Failed, and no
\* exception leaves process_signature_validation.
C9_ResultShape ==
    /\ escaped = NoExc
    /\ pc # "Done" => response = <<>>
    /\ pc = "Done" => /\ Len(response) = 1
                      /\ response[1].status \in {"Completed", "Error", "Failed"}

C9_Witness ==
    /\ Returned
    /\ abortCause = Exc("InvalidURL", 0)
    /\ call.op = "add_summary_note"
    /\ response[1].status = "Failed"

\* a failure of one of the retried categories
RetryableFailure(x) ==
    x.type \in {"HTTPStatusError", "RequestError", "ConnectError", "ReadTimeout"}

FailsFourTimesThenSucceeds ==
    /\ Len(attemptLog) >= 5
    /\ \A k \in 1..4 : RetryableFailure(attemptLog[k])
    /\ attemptLog[5] = NoExc

FailsFiveTimes ==
    /\ Len(attemptLog) >= 5
    /\ \A k \in 1..5 : RetryableFailure(attemptLog[k])

\* C10: a wrapped call that fails retryably on attempts 1 to 4 and succeeds
\* on attempt 5 returns after exactly 5 invocations and 4 retry warnings; one
\* that fails retryably on all 5 attempts is invoked exactly 5 times, logs 4
\* warnings and raises a wrapper carrying the 5th failure; no wrapped call
\* is invoked more than 5 times.
C10_RetryAttempts ==
    /\ Len(attemptLog) <= 5
    /\ FailsFourTimesThenSucceeds
         => Len(attemptLog) = 5 /\ call.result = "return" /\ warnings = 4
    /\ FailsFiveTimes
         => /\ Len(attemptLog) = 5
            /\ warnings = 4
            /\ call.result = "exhausted"
            /\ call.raised.type = "RetryError"
            /\ LastAttemptException(call.raised) = attemptLog[5]

C10_Witness ==
    /\ FailsFourTimesThenSucceeds
    /\ call.op = "update_result_attribute"
    /\ call.result = "return"
    /\ warnings = 4

\* a failure outside the retried categories
FatalFailure(x) == x # NoExc /\ ~RetryableFailure(x)

\* C11: a wrapped call is invoked again only after a failure of a retryable
\* category; a failure of a fatal category on any attempt ends the call at
\* once with that failure itself, not the exhaustion wrapper, with no sleep
\* and no further invocation.
C11_RetryEligibility ==
    /\ \A k \in 1..(Len(attemptLog) - 1) : RetryableFailure(attemptLog[k])
    /\ (attemptLog # <<>> /\ FatalFailure(attemptLog[Len(attemptLog)]))
         => /\ call.result = "raise"
            /\ call.raised = attemptLog[Len(attemptLog)]
            /\ call.raised.type # "RetryError"
            /\ warnings = Len(attemptLog) - 1
            /\ attempt_number = 0

C11_Witness ==
    /\ Len(attemptLog) = 3
    /\ attemptLog[3] = Exc("JSONDecodeError", 0)
    /\ call.op = "call_signature_api"
    /\ call.result = "raise"
    /\ warnings = 2

(***************************************************************************)
(* The queue trigger (function_app.py)                                     *)
(***************************************************************************)
\* deliveries explored
MaxDeliveries == 4

\* messages clients put on the queue
MaxEnqueued == 2

\* messages a client can put on the queue: text that is not JSON, a JSON
\* array, validation requests, messages marked completed, and JSON objects
\* that are no request
ClientMessages ==
    {QueueMessage("not json", NoneVal, NoneVal, "", NoneVal, "", 0, 0, 0, 0),
     QueueMessage("array", NoneVal, NoneVal, "", NoneVal, "", 0, 0, 0, 0)}
    \cup {QueueMessage("object", "t1", NoneVal, "request", k, "", 0, 0, 0, 0) :
            k \in {"key", ""}}
    \cup {QueueMessage("object", t, "completed", f, NoneVal, "", 0, 0, 0, 0) :
            t \in {"t1", NoneVal}, f \in {"request", "none"}}
    \cup {QueueMessage("object", t, NoneVal, "none", NoneVal, "", 0, 0, 0, 0) :
            t \in {"t1", NoneVal}}

\* ERROR_MESSAGES.get(type(exception), ERROR_MESSAGES[Exception]) of
\* function_app.py, looked up by the exact class
function_app_get_error_message(t) ==
    CASE t = "HTTPStatusError" -> HttpMessageTable
      [] t = "RequestError"    -> "Network error: Failed to connect to the API endpoint."
      [] t = "ReadTimeout"     -> "Timeout: The API request took too long to respond."
      [] t = "JSONDecodeError" -> "Invalid queue message: The message format is not valid JSON."
      [] t = "ValueError"      -> "Invalid queue message: The message could not be processed."
      [] OTHER                 -> UnexpectedErrorMessage

\* message_data.get("taskId", "unknown")
TaskIdOf(m) == IF m.taskId = NoneVal THEN "unknown" ELSE m.taskId

\* variant: the check looks for the status the orchestrator issues
IsCompleted_Capitalised(m) == m.status = "Completed"

\* message_data.get("status") == "completed"
IsCompleted(m) == m.status = "completed"

\* SignatureValidationRequest(**message_data): a message without the required
\* request fields is rejected, by a validation error (a ValueError) or by a
\* TypeError, depending on how the model class is built
RequestConstruction(m) ==
    IF m.fields = "request" THEN {"ok"} ELSE {"ValidationError", "TypeError"}

\* the request object built from a message
RequestOf(m) == [taskId |-> m.taskId, apiKey |-> m.apiKey, resultAttributeId |-> NoneId,
                 confidenceLevel |-> 500]

\* counters of runs of the orchestrator used as its possible results
SampleCounters == {<<2, 2, 0, 0>>, <<3, 1, 1, 1>>, <<0, 0, 0, 0>>}

\* results of process_signature_validation(request): a list of one response
OrchestratorResults(req) ==
    IF Falsy(req.apiKey)
    THEN {<<SignatureValidationResponse(req.taskId, "Failed",
              "Identifi API key not provided in request", 0, 0, 0, 0)>>}
    ELSE {<<SignatureValidationResponse(req.taskId,
              DetermineStatus(c[1], c[2], c[3]),
              DetermineMessage(c[1], c[2], c[3], c[4]),
              c[1], c[2], c[3], c[4])>> : c \in SampleCounters}

\* the message sent for one result of the orchestrator
ResultMessage(result) ==
    QueueMessage("object", result.taskId, result.status, "response", NoneVal,
                 result.message, result.sourceFiles, result.stored,
                 result.errored, result.unknown)

\* the message sent for a failed delivery
FailedMessage(task_id, error_message) ==
    QueueMessage("object", task_id, "Failed", "response", NoneVal,
                 error_message, 0, 0, 0, 0)

ResultMessages(results) == [i \in 1..Len(results) |-> ResultMessage(results[i])]

\* what queue_trigger makes of a message: whether it skipped it, whether it
\* ran the orchestrator, and the messages it then sends
Handled(skipped, ran, results, toSend) ==
    [skipped |-> skipped, ran |-> ran, results |-> results, toSend |-> toSend]

\* the body of queue_trigger for the message m, when the construction of the
\* request ends as built and the orchestrator would return results
Handle(m, built, results) ==
    IF m.body = "not json"
    THEN \* json.loads raises JSONDecodeError; task_id is still "unknown"
         Handled(FALSE, FALSE, <<>>,
             <<FailedMessage("unknown",
                   function_app_get_error_message("JSONDecodeError"))>>)
    ELSE IF m.body # "object"
    THEN \* message_data.get raises AttributeError, and raises it again in
         \* the closing handler before anything is sent
         Handled(FALSE, FALSE, <<>>, <<>>)
    ELSE IF IsCompleted(m)
    THEN Handled(TRUE, FALSE, <<>>, <<>>)
    ELSE IF built # "ok"
    THEN \* a ValueError is caught next to the construction, anything else by
         \* the closing handler; both send a Failed message
         Handled(FALSE, FALSE, <<>>,
             <<FailedMessage(TaskIdOf(m), function_app_get_error_message(built))>>)
    ELSE Handled(FALSE, TRUE, results, ResultMessages(results))

\* a client puts a message on the queue
Enqueue ==
    /\ enqueued < MaxEnqueued
    /\ \E m \in ClientMessages :
         queue' = Append(queue, [msg |-> m, origin |-> "client"])
    /\ enqueued' = enqueued + 1
    /\ UNCHANGED <<delivered, deliveries, runVars, classifierVars, interpreterVars,
                   callbackVars>>

\* one delivery of the message at the head of the queue; accepting tells
\* whether the queue takes the messages sent back
queue_trigger ==
    /\ queue # <<>>
    /\ deliveries < MaxDeliveries
    /\ LET entry == Head(queue)
           m     == entry.msg
       IN  \E accepting \in BOOLEAN, built \in RequestConstruction(m),
              results \in OrchestratorResults(RequestOf(m)) :
             LET h         == Handle(m, built, results)
                 published == IF accepting THEN h.toSend ELSE <<>>
             IN  /\ queue' = Tail(queue) \o
                        [i \in 1..Len(published) |->
                            [msg |-> published[i], origin |-> "trigger"]]
                 /\ delivered' = [msg |-> m, origin |-> entry.origin,
                                  skipped |-> h.skipped, ran |-> h.ran,
                                  results |-> h.results, accepting |-> accepting,
                                  published |-> published]
    /\ deliveries' = deliveries + 1
    /\ UNCHANGED <<enqueued, runVars, classifierVars, interpreterVars, callbackVars>>

\* no run of the orchestrator is being observed
RunIdle ==
    /\ pc = "Idle"
    /\ request = [taskId |-> "t1", apiKey |-> "key", resultAttributeId |-> NoneId,
                 confidenceLevel |-> 500]
    /\ env = [SIGNATURE_API_KEY |-> "sk", SIGNATURE_RECOGNITION_API |-> "https://recognition"]
    /\ documents = <<>>
    /\ idx = 0
    /\ source_files = 0
    /\ stored = 0
    /\ errored = 0
    /\ unknown = 0
    /\ attempt_number = 0
    /\ sig_result = NoSigResult
    /\ response = <<>>
    /\ escaped = NoExc
    /\ call = NoCall
    /\ attemptLog = <<>>
    /\ warnings = 0
    /\ slept = <<>>
    /\ appended = 0
    /\ issued = {}
    /\ trail = <<>>
    /\ abortCause = NoExc

InitQueue ==
    RunIdle /\ QueueIdle /\ ClassifierIdle /\ InterpreterIdle /\ CallbackManagerInit

NextQueue == Enqueue \/ queue_trigger

SpecQueue == InitQueue /\ [][NextQueue]_vars

\* the last delivery was of a message the trigger itself had sent
OwnMessageDelivered == delivered.origin = "trigger"

\* C12: a message the trigger itself published, result or Failed, causes no
\* run of the orchestrator and no further published message when it is
\* delivered to the trigger.
C12_LoopPrevention ==
    OwnMessageDelivered => (~delivered.ran /\ delivered.published = <<>>)

\* the last delivery was of a JSON object whose status is "completed"
CompletedDelivered ==
    delivered.msg.body = "object" /\ delivered.msg.status = "completed"

\* C13: a delivered message whose status is "completed" is skipped: the
\* orchestrator is not run and nothing is published.
C13_SkipsCompleted ==
    CompletedDelivered =>
        /\ delivered.skipped
        /\ ~delivered.ran
        /\ delivered.published = <<>>

C13_Witness ==
    /\ CompletedDelivered
    /\ delivered.msg.fields = "request"
    /\ delivered.accepting
    /\ deliveries = 2

\* a message was delivered, was not skipped, and the queue took sends
Answerable ==
    delivered # NoDelivery /\ ~delivered.skipped /\ delivered.accepting

ZeroCountersMessage(m) ==
    m.sourceFiles = 0 /\ m.stored = 0 /\ m.errored = 0 /\ m.unknown = 0

\* the published message copies the response r
CopyOf(m, r) ==
    /\ m.taskId = r.taskId
    /\ m.status = r.status
    /\ m.message = r.message
    /\ m.sourceFiles = r.sourceFiles
    /\ m.stored = r.stored
    /\ m.errored = r.errored
    /\ m.unknown = r.unknown

\* C14: every delivery that is not skipped publishes exactly one message
\* while the queue accepts sends: the orchestrator's single response for a
\* parseable request, a Failed message with zero counters otherwise.
C14_OneOutcomePerDelivery ==
    Answerable =>
        /\ Len(delivered.published) = 1
        /\ IF delivered.ran
           THEN /\ Len(delivered.results) = 1
                /\ CopyOf(delivered.published[1], delivered.results[1])
                /\ delivered.published[1].taskId = delivered.msg.taskId
           ELSE /\ delivered.published[1].status = "Failed"
                /\ ZeroCountersMessage(delivered.published[1])

(***************************************************************************)
(* parse_response called on its own                                        *)
(***************************************************************************)
\* one call of parse_response
Interpret ==
    /\ notes = NoNotes
    /\ sr_response # NoSrResponse
    /\ notes' = parse_response(sr_response, request.taskId)
    /\ UNCHANGED <<sr_response, runVars, queueVars, classifierVars, callbackVars>>

InitInterpreter ==
    /\ RunIdle
    /\ QueueIdle
    /\ ClassifierIdle
    /\ CallbackManagerInit
    /\ sr_response \in SrResponses
    /\ notes = NoNotes

NextInterpreter == Interpret

SpecInterpreter == InitInterpreter /\ [][NextInterpreter]_vars

\* parse_response was called and returned a note
NoteReturned == notes # NoNotes /\ notes.raised = ""

\* a zone the unsigned-signer lines are about
UnsignedRequired(z) == z.status = "Unsigned" /\ z.zoneSetting = "Required"

\* the zones of that kind on the page entries numbered P, as <<entry, zone>>
UnsignedRequiredOn(P) ==
    UNION {{<<i, j>> : j \in {k \in DOMAIN sr_response.pages[i].signatureZones :
                                  UnsignedRequired(sr_response.pages[i].signatureZones[k])}} :
           i \in {n \in DOMAIN sr_response.pages : sr_response.pages[n].pageNumber = P}}

SignerOf(ij) == sr_response.pages[ij[1]].signatureZones[ij[2]].signerNumber

\* the lines of the note that are about page P
LinesAbout(P) ==
    {i \in 1..Len(notes.page_unsigned) : notes.page_unsigned[i].key = P}

\* the i-th line reads 'Signer(s) [..] on Page P is unsigned.' for its signers
WellFormedLine(i) ==
    /\ i <= Len(notes.unsigned_messages)
    /\ notes.unsigned_messages[i] =
         "Signer(s) [" \o Join(notes.page_unsigned[i].value, ",") \o "] on Page "
         \o ToString(notes.page_unsigned[i].key) \o " is unsigned."

Listed(i) == {notes.page_unsigned[i].value[k] : k \in 1..Len(notes.page_unsigned[i].value)}

\* C15: for status Incomplete or OnHold, and page numbers that need not be
\* distinct, the note has, for each page number P with at least one zone
\* that is Unsigned and Required, exactly one line 'Signer(s) [..] on Page P
\* is unsigned.' that lists the signer number of every such zone of every
\* page entry numbered P.
C15_InterpreterCompleteness ==
    (NoteReturned /\ sr_response.status_of_Document \in {"Incomplete", "OnHold"})
    => \A P \in PageNumbers :
         UnsignedRequiredOn(P) # {}
         => /\ Cardinality(LinesAbout(P)) = 1
            /\ \A i \in LinesAbout(P) :
                 /\ WellFormedLine(i)
                 /\ \A ij \in UnsignedRequiredOn(P) : ToString(SignerOf(ij)) \in Listed(i)

\* C16: only zones that are Unsigned and Required contribute to the
\* unsigned-signer lines; when the status is Complete or there is no such
\* zone, the note is exactly the base note.
C16_InterpreterSoundness ==
    NoteReturned
    => /\ Len(notes.unsigned_messages) = Len(notes.page_unsigned)
       /\ \A i \in 1..Len(notes.page_unsigned) :
            /\ WellFormedLine(i)
            /\ \A s \in Listed(i) :
                 \E ij \in UnsignedRequiredOn(notes.page_unsigned[i].key) :
                     ToString(SignerOf(ij)) = s
       /\ (\/ sr_response.status_of_Document = "Complete"
           \/ \A P \in PageNumbers : UnsignedRequiredOn(P) = {})
          => /\ notes.unsigned_messages = <<>>
             /\ notes.text =
                  "Identifi Signature Validation process checked "
                  \o ToString(sr_response.page_Count)
                  \o " pages in the document and assigned status as "
                  \o Lower(sr_response.status_of_Document)
                  \o ". (Reference#: " \o request.taskId \o ")"

\* an OnHold document whose only unsigned zone may be skipped gets the bare
\* base note
C16_Witness ==
    /\ NoteReturned
    /\ sr_response.status_of_Document = "OnHold"
    /\ sr_response.pages =
         <<[pageNumber |-> 1,
            signatureZones |-> <<Zone("Unsigned", "AllowSkip", 3),
                                 Zone("Signed", "Required", 4)>>]>>
    /\ notes.text = "Identifi Signature Validation process checked 1 pages in the document and assigned status as onhold. (Reference#: t1)"

\* the recognition result at hand carries a status parse_response does not know
UnknownStatus(sig) ==
    sig.has_pages /\ sig.status_of_Document \notin {"Complete", "Incomplete", "OnHold"}

\* the events this step adds to the history of the current entry
NewEvents ==
    IF idx \in DOMAIN trail /\ idx \in DOMAIN trail'
    THEN SubSeq(trail'[idx], Len(trail[idx]) + 1, Len(trail'[idx]))
    ELSE <<>>

\* this step calls parse_response
InterpretsNow == \E k \in DOMAIN NewEvents : NewEvents[k].op = "parse_response"

\* C17: for a recognition result whose document status is none of Complete,
\* Incomplete and OnHold the interpretation fails ("Unknown document
\* status"); in the run the entry is counted in errored, no note is appended,
\* stored is not incremented and the run goes on with the next entry.
C17_UnknownStatusIsPerDocument ==
    [][(UnknownStatus(sig_result) /\ InterpretsNow)
       => /\ NewEvents[Len(NewEvents) - 1] = InterpretationFailed("Unknown document status")
          /\ NewEvents[Len(NewEvents)] = Event("counter", "errored", NoExc)
          /\ errored' = errored + 1
          /\ stored' = stored
          /\ unknown' = unknown
          /\ "add_summary_note" \notin issued' \ issued
          /\ call'.op # "add_summary_note"
          /\ pc' = "PerDocument"
          /\ idx' = idx + 1
          /\ response' = <<>>
          /\ escaped' = NoExc
          /\ abortCause' = NoExc]_vars

\* an entry with an unknown status was counted in errored, and the entry
\* after it was then stored
C17_Witness ==
    /\ Returned
    /\ \E i \in 1..(Len(trail) - 1) :
         /\ \E k \in DOMAIN trail[i] :
                trail[i][k] = InterpretationFailed("Unknown document status")
         /\ Incremented(i, "errored")
         /\ Incremented(i + 1, "stored")
    /\ response[1].status = "Error"

(***************************************************************************)
(* get_error_message called on its own                                     *)
(***************************************************************************)
\* HTTP status codes of failed responses: the six with a message of their
\* own and three without
StatusCodes == {400, 401, 403, 404, 429, 500, 418, 502, 503}

\* failures that are not a retry-exhaustion wrapper
Causes ==
    {HTTPStatusError(s) : s \in StatusCodes}
    \cup {Exc(t, 0) : t \in {"RequestError", "ConnectError", "ReadTimeout",
                             "JSONDecodeError", "KeyError", "InvalidURL",
                             "ValueError", "Exception"}}

\* the wrappers the retry policy can raise: only a retried failure is wrapped
Wrappers == {RetryErrorOf(c) : c \in {x \in Causes : Retryable(x)}}

\* calls of get_error_message: status_code 0 stands for an omitted argument
ClassifierInputs ==
    [exception : Causes \cup Wrappers, status_code : StatusCodes \cup {0}]

Classify ==
    /\ clsResult = NotClassified
    /\ clsArgs # NoArgs
    /\ clsResult' = get_error_message(clsArgs.exception, clsArgs.status_code)
    /\ UNCHANGED <<clsArgs, runVars, queueVars, interpreterVars, callbackVars>>

InitClassifier ==
    /\ RunIdle
    /\ QueueIdle
    /\ InterpreterIdle
    /\ CallbackManagerInit
    /\ clsArgs \in ClassifierInputs
    /\ clsResult = NotClassified

NextClassifier == Classify

SpecClassifier == InitClassifier /\ [][NextClassifier]_vars

Classified == clsResult # NotClassified

IsWrapper(x) == x.type = "RetryError"

\* the failure to classify: the wrapped cause of a wrapper, else the failure
CauseOf(x) == IF IsWrapper(x) THEN Exc(x.wraps, x.status_code) ELSE x

\* the call classifies an HTTP-status failure under its own status code
HttpStatusCall ==
    /\ CauseOf(clsArgs.exception).type = "HTTPStatusError"
    /\ IsWrapper(clsArgs.exception) \/ clsArgs.status_code = clsArgs.exception.status_code

CannedCodes == {400, 401, 403, 404, 429, 500}

CannedMessage(s) ==
    CASE s = 400 -> "Bad request: The server could not understand the request due to invalid data."
      [] s = 401 -> "Unauthorized: Invalid API key or authentication credentials."
      [] s = 403 -> "Forbidden: Access to the resource is restricted."
      [] s = 404 -> "Not found: The requested resource (e.g., document or smart folder) does not exist."
      [] s = 429 -> "Too many requests: Rate limit exceeded, please try again later."
      [] s = 500 -> "Server error: The server encountered an internal error."

\* C18: an HTTP-status failure with status code s is classified as the canned
\* message of s when s is one of 400, 401, 403, 404, 429 and 500, and as the
\* default HTTP error message for every other non-zero code; the six canned
\* messages are pairwise different.
C18_HttpMapping ==
    (Classified /\ HttpStatusCall)
    => LET s == CauseOf(clsArgs.exception).status_code
       IN  /\ s \in CannedCodes => clsResult = CannedMessage(s)
           /\ s \notin CannedCodes =>
                clsResult = "HTTP error occurred while processing the request."
           /\ \A a, b \in CannedCodes :
                a # b => get_error_message(HTTPStatusError(a), a)
                         # get_error_message(HTTPStatusError(b), b)

C18_Witness ==
    /\ Classified
    /\ clsArgs.exception = RetryErrorOf(HTTPStatusError(403))
    /\ clsResult = "Forbidden: Access to the resource is restricted."

\* a failure of the transport, a read timeout excepted
TransportFailure(x) == IsInstance(x, "RequestError") /\ ~IsInstance(x, "ReadTimeout")

\* C19: every transport failure (httpx.RequestError or a subtype other than
\* a read timeout) is classified as the 'Network error' message, a read
\* timeout as the 'Timeout' message, and only failures outside the
\* transport, timeout, HTTP-status and malformed-response categories get the
\* 'Unexpected error' message.
C19_CategoryMapping ==
    Classified
    => LET c == CauseOf(clsArgs.exception)
       IN  /\ TransportFailure(c) =>
                clsResult = "Network error: Failed to connect to the API endpoint."
           /\ IsInstance(c, "ReadTimeout") =>
                clsResult = "Timeout: The API request took too long to respond."
           /\ clsResult = "Unexpected error: An unknown issue occurred during processing."
                => /\ ~IsInstance(c, "RequestError")
                   /\ ~IsInstance(c, "HTTPStatusError")
                   /\ c.type \notin {"JSONDecodeError", "KeyError"}

\* C20: classifying the retry-exhaustion wrapper of a cause c gives the
\* message of classifying c itself with c's own HTTP status code, whatever
\* status_code is passed alongside the wrapper.
C20_Unwrapping ==
    (Classified /\ IsWrapper(clsArgs.exception))
    => clsResult = get_error_message(CauseOf(clsArgs.exception),
                                     CauseOf(clsArgs.exception).status_code)

C20_Witness ==
    /\ Classified
    /\ clsArgs = [exception |-> RetryErrorOf(HTTPStatusError(404)), status_code |-> 500]
    /\ clsResult = "Not found: The requested resource (e.g., document or smart folder) does not exist."

(***************************************************************************)
(* The callback manager (webhook/callback_manager.py)                      *)
(***************************************************************************)
\* arguments of CallbackManager.__init__: the retries allowed, and the delay
\* in seconds between retries (a manager built with retry_delay=2)
max_retries == 1

retry_delay == 2

\* seconds of timedelta(hours=1)
Hour == 3600

\* calls of add_callback
MaxAdds == 2

\* calls of the other methods
MaxCalls == 1

\* the seconds the clock shows
Times == {0, 1, 2, 3}

\* callback_id arguments of add_callback: NoneVal, the id is generated
CallbackIdArgs == {NoneVal}

\* answers to the POST of a callback
PostResponses ==
    {PostResponse(200, ""), PostResponse(204, ""), PostResponse(500, ""),
     PostResponse(0, "ConnectionError")}

\* max_age_hours arguments of clear_completed_callbacks
MaxAges == {0, 1}

\* f"cb_{int(time.time())}_{len(self.pending_callbacks)}"
GeneratedId == "cb_" \o ToString(now) \o "_" \o ToString(Len(pending_callbacks))

\* the dict add_callback builds; key is the identity of the dict and posts the
\* history of the POSTs made for it since it was last put into pending
NewCallback(callback_id) ==
    [key |-> created + 1, id |-> callback_id, status |-> "pending", retry_count |-> 0,
     error_message |-> NoneVal, completed_at |-> NoneId, next_retry |-> NoneId,
     posts |-> 0]

\* the history of one more call of a method
Called(op, arg, result) == [n |-> cbCall.n + 1, op |-> op, arg |-> arg, result |-> result]

add_callback ==
    /\ created < MaxAdds
    /\ \E a \in CallbackIdArgs :
         LET callback_id == IF a = NoneVal THEN GeneratedId ELSE a
         IN  /\ pending_callbacks' = Append(pending_callbacks, NewCallback(callback_id))
             /\ cbCall' = Called("add_callback", a, callback_id)
    /\ created' = created + 1
    /\ UNCHANGED <<completed_callbacks, failed_callbacks, callback, worker, running,
                   now, reaper, runVars, queueVars, classifierVars, interpreterVars>>

\* _process_callbacks finds pending_callbacks empty and sleeps a second
WorkerIdles ==
    /\ running
    /\ worker.pc = "polling"
    /\ pending_callbacks = <<>>
    /\ worker' = [worker EXCEPT !.pc = "sleeping", !.wake = now + 1]
    /\ UNCHANGED <<pending_callbacks, completed_callbacks, failed_callbacks, callback,
                   running, now, reaper, cbCall, created,
                   runVars, queueVars, classifierVars, interpreterVars>>

\* _process_callbacks pops the head of pending_callbacks and _execute_callback
\* sends the POST
WorkerPops ==
    /\ running
    /\ worker.pc = "polling"
    /\ pending_callbacks # <<>>
    /\ callback' = [Head(pending_callbacks) EXCEPT !.posts = @ + 1]
    /\ pending_callbacks' = Tail(pending_callbacks)
    /\ worker' = [worker EXCEPT !.pc = "posting"]
    /\ UNCHANGED <<completed_callbacks, failed_callbacks, running, now, reaper,
                   cbCall, created, runVars, queueVars, classifierVars, interpreterVars>>

\* response.status_code in [200, 201, 202]
IsSuccess(post) == post.raised = "" /\ post.status_code \in {200, 201, 202}

\* the error_message _execute_callback hands to _handle_callback_failure
FailureMessage(post) ==
    IF post.raised = "" THEN "HTTP " \o ToString(post.status_code)
    ELSE "Network error: " \o post.raised

\* variant: one attempt less
MayRetry_Strict(retry_count) == retry_count < max_retries

\* callback['retry_count'] <= self.max_retries
MayRetry(retry_count) == retry_count <= max_retries

\* _handle_callback_failure: the record after the failure
FailedOnce(cb, error_message) ==
    LET n == cb.retry_count + 1
    IN  IF MayRetry(n)
        THEN [cb EXCEPT !.error_message = error_message, !.retry_count = n,
                        !.status = "retrying", !.next_retry = now + retry_delay * n]
        ELSE [cb EXCEPT !.error_message = error_message, !.retry_count = n,
                        !.status = "failed"]

\* the POST is answered: _execute_callback files the record, and the thread
\* sleeps a second
WorkerFinishes ==
    /\ worker.pc = "posting"
    /\ \E post \in PostResponses :
         /\ worker' = [pc |-> "sleeping", wake |-> now + 1, post |-> post]
         /\ IF IsSuccess(post)
            THEN /\ completed_callbacks' =
                      Append(completed_callbacks,
                             [callback EXCEPT !.status = "completed", !.completed_at = now])
                 /\ UNCHANGED <<pending_callbacks, failed_callbacks>>
            ELSE LET cb == FailedOnce(callback, FailureMessage(post))
                 IN  IF cb.status = "retrying"
                     THEN /\ pending_callbacks' = Append(pending_callbacks, cb)
                          /\ UNCHANGED <<completed_callbacks, failed_callbacks>>
                     ELSE /\ failed_callbacks' = Append(failed_callbacks, cb)
                          /\ UNCHANGED <<pending_callbacks, completed_callbacks>>
    /\ callback' = NoCallback
    /\ UNCHANGED <<running, now, reaper, cbCall, created,
                   runVars, queueVars, classifierVars, interpreterVars>>

\* time.sleep(1) is over
WorkerWakes ==
    /\ worker.pc = "sleeping"
    /\ now >= worker.wake
    /\ worker' = WorkerStart
    /\ UNCHANGED <<pending_callbacks, completed_callbacks, failed_callbacks, callback,
                   running, now, reaper, cbCall, created,
                   runVars, queueVars, classifierVars, interpreterVars>>

\* the ids of the records in a list
IdsIn(list) == {list[i].id : i \in DOMAIN list}

\* ids a caller may ask about: those handed out, and one never handed out
KnownIds ==
    IdsIn(pending_callbacks) \cup IdsIn(completed_callbacks) \cup IdsIn(failed_callbacks)
    \cup (IF callback = NoCallback THEN {} ELSE {callback.id}) \cup {"nobody"}

\* position of the first record of the list with this id, 0 if there is none
FirstWithId(list, callback_id) ==
    IF callback_id \in IdsIn(list)
    THEN CHOOSE i \in DOMAIN list :
            /\ list[i].id = callback_id
            /\ \A j \in 1..(i - 1) : list[j].id # callback_id
    ELSE 0

\* list.pop(i)
Pop(list, i) == SubSeq(list, 1, i - 1) \o SubSeq(list, i + 1, Len(list))

\* variant: the retry count is kept
Reset_KeepsCount(cb) ==
    [cb EXCEPT !.status = "pending", !.error_message = NoneVal,
               !.next_retry = NoneId, !.posts = 0]

\* variant: the record goes back to pending with the status it had
Reset_KeepsStatus(cb) ==
    [cb EXCEPT !.retry_count = 0, !.error_message = NoneVal,
               !.next_retry = NoneId, !.posts = 0]

\* "Reset for retry" of retry_failed_callback
Reset(cb) ==
    [cb EXCEPT !.status = "pending", !.retry_count = 0, !.error_message = NoneVal,
               !.next_retry = NoneId, !.posts = 0]

retry_failed_callback ==
    /\ cbCall.n - created < MaxCalls
    /\ \E callback_id \in KnownIds :
         LET i == FirstWithId(failed_callbacks, callback_id)
         IN  IF i = 0
             THEN /\ cbCall' = Called("retry_failed_callback", callback_id, "False")
                  /\ UNCHANGED <<pending_callbacks, failed_callbacks>>
             ELSE /\ failed_callbacks' = Pop(failed_callbacks, i)
                  /\ pending_callbacks' = Append(pending_callbacks, Reset(failed_callbacks[i]))
                  /\ cbCall' = Called("retry_failed_callback", callback_id, "True")
    /\ UNCHANGED <<completed_callbacks, callback, worker, running, now, reaper, created,
                   runVars, queueVars, classifierVars, interpreterVars>>

\* completed_at < cutoff_time
IsOld(cb, cutoff_time) == cb.completed_at < cutoff_time

\* the list remaining_callbacks after the loop over completed_callbacks
Remaining(list, cutoff_time) ==
    LET Young(cb) == ~IsOld(cb, cutoff_time) IN SelectSeq(list, Young)

\* get_callback_status: the first record with the id in pending, then in
\* completed, then in failed; None (the empty record) when no list has one
get_callback_status(callback_id) ==
    LET p == FirstWithId(pending_callbacks, callback_id)
        c == FirstWithId(completed_callbacks, callback_id)
        f == FirstWithId(failed_callbacks, callback_id)
    IN  IF p # 0 THEN pending_callbacks[p]
        ELSE IF c # 0 THEN completed_callbacks[c]
        ELSE IF f # 0 THEN failed_callbacks[f]
        ELSE NoCallback

\* get_callback_summary, without its timestamp
get_callback_summary ==
    [pending |-> Len(pending_callbacks),
     completed |-> Len(completed_callbacks),
     failed |-> Len(failed_callbacks),
     total |-> Len(pending_callbacks) + Len(completed_callbacks) + Len(failed_callbacks)]

\* clear_completed_callbacks up to the end of its loop
ReaperScans ==
    /\ ~reaper.active
    /\ cbCall.n - created < MaxCalls
    /\ \E max_age_hours \in MaxAges :
         LET cutoff_time == now - max_age_hours * Hour
         IN  /\ reaper' = [active |-> TRUE, max_age_hours |-> max_age_hours,
                           called_at |-> now, cutoff_time |-> cutoff_time,
                           remaining_callbacks |-> Remaining(completed_callbacks, cutoff_time)]
             /\ cbCall' = Called("clear_completed_callbacks", ToString(max_age_hours), "")
    /\ UNCHANGED <<pending_callbacks, completed_callbacks, failed_callbacks, callback,
                   worker, running, now, created,
                   runVars, queueVars, classifierVars, interpreterVars>>

\* self.completed_callbacks = remaining_callbacks
ReaperAssigns ==
    /\ reaper.active
    /\ completed_callbacks' = reaper.remaining_callbacks
    /\ reaper' = NoReaper
    /\ UNCHANGED <<pending_callbacks, failed_callbacks, callback, worker, running, now,
                   cbCall, created, runVars, queueVars, classifierVars, interpreterVars>>

\* shutdown, as the step at which it returns: the flag is cleared and
\* join(timeout=5) has given up or the thread has ended. The join does not
\* outwait a POST, whose timeout is 30 seconds, so the thread may still be
\* inside an attempt; the five seconds are not measured on the clock.
shutdown ==
    /\ running
    /\ cbCall.n - created < MaxCalls
    /\ running' = FALSE
    /\ cbCall' = Called("shutdown", "", "")
    /\ UNCHANGED <<pending_callbacks, completed_callbacks, failed_callbacks, callback,
                   worker, now, reaper, created,
                   runVars, queueVars, classifierVars, interpreterVars>>

\* time passes
Advance ==
    /\ \E t \in Times : t > now /\ now' = t
    /\ UNCHANGED <<pending_callbacks, completed_callbacks, failed_callbacks, callback,
                   worker, running, reaper, cbCall, created,
                   runVars, queueVars, classifierVars, interpreterVars>>

InitCallbacks ==
    RunIdle /\ QueueIdle /\ ClassifierIdle /\ InterpreterIdle /\ CallbackManagerInit

NextCallbacks ==
    \/ add_callback
    \/ WorkerIdles
    \/ WorkerPops
    \/ WorkerFinishes
    \/ WorkerWakes
    \/ retry_failed_callback
    \/ ReaperScans
    \/ ReaperAssigns
    \/ shutdown
    \/ Advance

SpecCallbacks == InitCallbacks /\ [][NextCallbacks]_vars

\* variant: the sleep that follows a failed attempt never ends
SleepEnds_NotAfterFailure ==
    /\ worker.pc = "sleeping"
    /\ worker.post = NoPost \/ IsSuccess(worker.post)
    /\ worker' = WorkerStart
    /\ UNCHANGED <<pending_callbacks, completed_callbacks, failed_callbacks, callback,
                   running, now, reaper, cbCall, created,
                   runVars, queueVars, classifierVars, interpreterVars>>

\* time.sleep(1) returns. The clock of the model has a last second, so where
\* progress is followed the clock stands still and the second slept is not
\* measured on it: the sleep just ends.
SleepEnds ==
    /\ worker.pc = "sleeping"
    /\ worker' = WorkerStart
    /\ UNCHANGED <<pending_callbacks, completed_callbacks, failed_callbacks, callback,
                   running, now, reaper, cbCall, created,
                   runVars, queueVars, classifierVars, interpreterVars>>

\* the steps of the background thread
WorkerStep == WorkerIdles \/ WorkerPops \/ WorkerFinishes \/ SleepEnds

NextCallbacksLive ==
    \/ add_callback
    \/ WorkerIdles
    \/ WorkerPops
    \/ WorkerFinishes
    \/ SleepEnds
    \/ retry_failed_callback
    \/ ReaperScans
    \/ ReaperAssigns
    \/ shutdown

\* The background thread is a daemon thread of its own: it is scheduled
\* again and again, requests.post returns or raises within its timeout of 30
\* seconds, and time.sleep returns.
SpecCallbacksLive == InitCallbacks /\ [][NextCallbacksLive]_vars /\ WF_vars(WorkerStep)

\* this step is the background thread filing the record it executed
WorkerFiles == worker.pc = "posting" /\ worker'.pc = "sleeping"

\* C21: a callback attempt whose POST returns any 2xx status code (200 to
\* 299) puts the callback into the completed list with status completed,
\* does not increment its retry count and does not put it back into pending.
C21_SuccessCriterion ==
    [][(WorkerFiles /\ worker'.post.raised = "" /\ worker'.post.status_code \in 200..299)
       => /\ completed_callbacks' =
               Append(completed_callbacks,
                      [callback EXCEPT !.status = "completed", !.completed_at = now])
          /\ completed_callbacks'[Len(completed_callbacks')].retry_count = callback.retry_count
          /\ pending_callbacks' = pending_callbacks
          /\ failed_callbacks' = failed_callbacks]_vars

\* the elements of a list
Range(list) == {list[i] : i \in DOMAIN list}

\* every record the manager or its thread holds
HeldRecords ==
    Range(pending_callbacks) \cup Range(completed_callbacks) \cup Range(failed_callbacks)
    \cup (IF callback = NoCallback THEN {} ELSE {callback})

\* C22: each failed attempt increments retry_count by exactly one; the
\* callback goes back to pending with status retrying while retry_count <=
\* max_retries and to failed otherwise, so that a callback whose every
\* attempt fails is attempted exactly max_retries + 1 times and then rests in
\* failed, and retry_count <= max_retries + 1 in every reachable state.
C22_RetryExhaustion ==
    /\ \A cb \in HeldRecords : cb.retry_count <= max_retries + 1
    /\ \A cb \in Range(pending_callbacks) :
         /\ cb.retry_count = cb.posts
         /\ cb.retry_count <= max_retries
         /\ cb.status = (IF cb.posts = 0 THEN "pending" ELSE "retrying")
    /\ \A cb \in Range(failed_callbacks) :
         /\ cb.status = "failed"
         /\ cb.retry_count = max_retries + 1
         /\ cb.posts = max_retries + 1
    /\ \A cb \in Range(completed_callbacks) :
         /\ cb.retry_count = cb.posts - 1
         /\ cb.posts <= max_retries + 1
    /\ callback # NoCallback =>
         /\ callback.retry_count = callback.posts - 1
         /\ callback.posts <= max_retries + 1

\* a callback that failed with HTTP 500 every time rests in failed
C22_Witness ==
    /\ Len(failed_callbacks) = 1
    /\ failed_callbacks[1].posts = max_retries + 1
    /\ failed_callbacks[1].error_message = "HTTP 500"
    /\ pending_callbacks = <<>>
    /\ callback = NoCallback

\* this step is a call of the method op
Calls(op) == cbCall'.n = cbCall.n + 1 /\ cbCall'.op = op

\* C23: retry_failed_callback(id) for an id in the failed list removes that
\* record from failed, sets its status to pending and its retry_count to 0,
\* appends it to the tail of pending and returns True, after which the
\* record has a fresh budget of max_retries + 1 attempts; for an id that is
\* not in the failed list (pending, completed, in flight or unknown) it
\* returns False and leaves pending, completed and failed unchanged.
C23_ManualReplay ==
    [][Calls("retry_failed_callback")
       => IF cbCall'.arg \in IdsIn(failed_callbacks)
          THEN /\ cbCall'.result = "True"
               /\ \E i \in DOMAIN failed_callbacks :
                    /\ failed_callbacks[i].id = cbCall'.arg
                    /\ failed_callbacks' =
                         SubSeq(failed_callbacks, 1, i - 1)
                         \o SubSeq(failed_callbacks, i + 1, Len(failed_callbacks))
                    /\ Len(pending_callbacks') = Len(pending_callbacks) + 1
                    /\ SubSeq(pending_callbacks', 1, Len(pending_callbacks)) = pending_callbacks
                    /\ LET cb == pending_callbacks'[Len(pending_callbacks')]
                       IN  /\ cb.key = failed_callbacks[i].key
                           /\ cb.id = cbCall'.arg
                           /\ cb.status = "pending"
                           /\ cb.retry_count = 0
                           /\ cb.posts = 0
               /\ completed_callbacks' = completed_callbacks
          ELSE /\ cbCall'.result = "False"
               /\ pending_callbacks' = pending_callbacks
               /\ completed_callbacks' = completed_callbacks
               /\ failed_callbacks' = failed_callbacks]_vars

\* a replayed callback has used its fresh budget and rests in failed again
C23_Witness ==
    /\ cbCall.op = "retry_failed_callback"
    /\ cbCall.result = "True"
    /\ \E i \in DOMAIN failed_callbacks :
         /\ failed_callbacks[i].id = cbCall.arg
         /\ failed_callbacks[i].posts = max_retries + 1
         /\ failed_callbacks[i].retry_count = max_retries + 1

\* this step is clear_completed_callbacks returning
ReaperReturns == reaper.active /\ ~reaper'.active

\* the records of the list that are not older than the cutoff of the call
\* under way, in their order
NotOlder(list) ==
    LET Kept(cb) == cb.completed_at >= reaper.called_at - reaper.max_age_hours * 3600
    IN  SelectSeq(list, Kept)

\* C24: clear_completed_callbacks(max_age) removes from the completed list
\* exactly the records whose completed_at is older than now - max_age, keeps
\* every younger completed record in its original order, and leaves the
\* pending and failed lists unchanged.
C24_Reaper ==
    [][/\ Calls("clear_completed_callbacks")
            => UNCHANGED <<pending_callbacks, completed_callbacks, failed_callbacks>>
       /\ ReaperReturns
            => /\ completed_callbacks' = NotOlder(completed_callbacks)
               /\ UNCHANGED <<pending_callbacks, failed_callbacks>>]_vars

(***************************************************************************)
(* Properties of the run: order of the calls, values written, retry        *)
(* backoff, number of call attempts                                        *)
(***************************************************************************)
\* the steps of a list entry in the order of the for loop body
PlannedSteps ==
    <<"fetch_document_content", "call_signature_api", "update_doc_attribute">>
    \o (IF request.resultAttributeId = NoneId THEN <<>> ELSE <<"update_result_attribute">>)
    \o <<"parse_response", "add_summary_note">>

IsCallOrInterpretation(e) == e.op \in {PlannedSteps[k] : k \in DOMAIN PlannedSteps}

\* the calls and the interpretation a list entry has finished
FinishedSteps(i) == SelectSeq(trail[i], IsCallOrInterpretation)

\* C25: outbound calls are issued one document at a time in list order, and
\* within a document in the order fetch, recognize, confidence-attribute
\* write, result-attribute write (if configured), interpret, note append; a
\* step is issued only after every earlier step of the same document
\* succeeded, no call of a later document is issued before the current one
\* has incremented its terminal counter, and stored is incremented only
\* after the note append succeeded.
C25_CallOrdering ==
    /\ \A i \in DOMAIN trail :
         LET st == FinishedSteps(i)
         IN  /\ Len(st) <= Len(PlannedSteps)
             /\ \A k \in 1..Len(st) :
                  /\ st[k].op = PlannedSteps[k]
                  /\ k < Len(st) => st[k].result = "return"
             /\ i > idx => trail[i] = <<>>
             /\ i < idx => Len(CountersOf(i)) = 1
             /\ \A k \in 1..Len(trail[i]) :
                  trail[i][k].op = "counter"
                  => /\ k = Len(trail[i])
                     /\ trail[i][k].result = "stored"
                          => /\ k > 1
                             /\ trail[i][k - 1].op = "add_summary_note"
                             /\ trail[i][k - 1].result = "return"
    /\ call.op \notin {"", "fetch_documents"}
         => /\ call.doc \in DOMAIN trail
            /\ call.doc <= idx
            /\ LET st == FinishedSteps(call.doc)
               IN  IF call.result = "sleep"
                   THEN /\ call.doc = idx
                        /\ Len(CountersOf(idx)) = 0
                        /\ call.op = PlannedSteps[Len(st) + 1]
                        /\ \A k \in 1..Len(st) : st[k].result = "return"
                   ELSE \E k \in 1..Len(st) : st[k].op = call.op

C25_Witness ==
    /\ Returned
    /\ N >= 2
    /\ request.resultAttributeId # NoneId
    /\ Len(FinishedSteps(1)) = 6
    /\ Incremented(1, "stored")
    /\ Len(FinishedSteps(2)) = 3
    /\ FinishedSteps(2)[3].result = "exhausted"
    /\ Incremented(2, "errored")

\* the for loop is at the head of its body for a list entry without
\* documentId or without applicationId
AtEntryWithoutIds ==
    pc = "PerDocument" /\ idx \in DOMAIN documents /\ MissingIds(idx)

\* C26: for every list entry whose documentId or applicationId is missing,
\* the run increments unknown by exactly one, leaves stored and errored
\* unchanged, and issues no fetch, recognition, attribute or note call for
\* that entry.
C26_UnknownFrame ==
    [][/\ AtEntryWithoutIds
            => /\ unknown' = unknown + 1
               /\ stored' = stored
               /\ errored' = errored
               /\ idx' = idx + 1
               /\ UNCHANGED <<issued, call, attemptLog, attempt_number>>
       /\ \A i \in DOMAIN documents :
            (i < idx /\ MissingIds(i))
            => /\ trail'[i] = <<Event("counter", "unknown", NoExc)>>
               /\ call' # call => call'.doc # i]_vars

C26_Witness ==
    /\ Returned
    /\ N = 3
    /\ documents[1].documentId = NoneId
    /\ documents[3].applicationId = NoneId
    /\ response[1].unknown = 2
    /\ response[1].stored = 1
    /\ issued = {"fetch_documents", "fetch_document_content", "call_signature_api",
                 "update_doc_attribute", "add_summary_note"}

\* the confidence write of the current list entry has been started
ConfidenceWritten == call.op = "update_doc_attribute" /\ sig_result # NoSigResult

\* m * 100 rounded to the nearest integer, m in thousandths
RoundedHundredfold(m) == (m + 5) \div 10

\* C27: for every min_confidence_score m in [0, 1] (in thousandths) the value
\* written to the confidence attribute is the decimal string of m * 100
\* rounded to the nearest integer (0.555 gives "56"), and lies in 0..100.
C27_ConfidenceScore ==
    ConfidenceWritten
    => /\ call.value = ToString(RoundedHundredfold(sig_result.score))
       /\ \E n \in 0..100 : call.value = ToString(n)

\* the result write of the current list entry has been started
ResultWritten == call.op = "update_result_attribute" /\ sig_result # NoSigResult

IsAttributeWrite(e) == e.op \in {"update_doc_attribute", "update_result_attribute"}

\* the attribute writes a list entry has finished
AttributeWrites(i) == SelectSeq(trail[i], IsAttributeWrite)

\* the list entry got as far as its interpretation
Interpreted(i) == \E k \in 1..Len(trail[i]) : trail[i][k].op = "parse_response"

\* C28: when a result-attribute id is configured, the value written to it is
\* "Y" if and only if confidenceScore / 100 >= confidenceLevel, for the
\* integer score derived in the step before and not the raw
\* min_confidence_score, and "N" otherwise, and it is written only after the
\* confidence-attribute write succeeded; when none is configured, exactly
\* one attribute write is issued per document.
C28_ResultMarker ==
    /\ ResultWritten
         => /\ request.resultAttributeId # NoneId
            /\ call.value \in {"Y", "N"}
            /\ call.value = "Y"
                 <=> IntOfHundredfold(sig_result.score) * 10 >= request.confidenceLevel
            /\ AttributeWrites(idx) # <<>>
            /\ AttributeWrites(idx)[1] = Event("update_doc_attribute", "return", NoExc)
    /\ request.resultAttributeId = NoneId
         => /\ "update_result_attribute" \notin issued
            /\ \A i \in DOMAIN trail :
                 /\ Len(AttributeWrites(i)) <= 1
                 /\ Interpreted(i) => Len(AttributeWrites(i)) = 1

\* "N" is written for a raw score that reaches the level while the integer
\* score does not
C28_Witness ==
    /\ ResultWritten
    /\ call.result = "return"
    /\ sig_result.score >= request.confidenceLevel
    /\ call.value = "N"

\* min(max_delay, base * multiplier^(k-1)) for k = 1..Len(sleeps)
IsExponentialBackoff(sleeps, base, multiplier, max_delay) ==
    \A k \in 1..Len(sleeps) :
        sleeps[k] = (IF base * multiplier ^ (k - 1) <= max_delay
                     THEN base * multiplier ^ (k - 1) ELSE max_delay)

\* C29: the sleep before the retry that follows failed attempt k (k = 1..4)
\* equals min(max_delay, base * multiplier^(k-1)) for the configured base,
\* multiplier and max_delay = 15; the sequence of sleeps is non-decreasing
\* and never exceeds max_delay.  Base and multiplier may be any of the
\* numbers the retry policy is configured with.
C29_RetryBackoff ==
    /\ \E base \in {1, 2}, multiplier \in {1, 2} :
         IsExponentialBackoff(slept, base, multiplier, 15)
    /\ \A k \in 1..Len(slept) :
         /\ slept[k] <= 15
         /\ k > 1 => slept[k - 1] <= slept[k]

\* this step invokes a retry-wrapped function
IsInvocation == attemptLog' # attemptLog \/ call' # call

\* the retry-wrapped calls the current list entry may still start, the one
\* under way included
CallsLeft ==
    CASE pc = "Fetching" -> 5
      [] pc = "Recognizing" -> 4
      [] pc = "WritingConfidence" -> 3
      [] pc = "WritingResult" -> 2
      [] pc = "AddingNote" -> 1
      [] OTHER -> 0

\* The attempts left to the run out of 5 for the enumeration and, once the
\* list is known, out of 25 for each of its N entries.
AttemptsLeft ==
    CASE pc = "Init" -> 5
      [] pc = "Enumerating" -> 5 - attempt_number
      [] pc = "PerDocument" -> 25 * (N + 1 - idx)
      [] pc = "Done" -> 0
      [] OTHER -> 25 * (N - idx) + 5 * CallsLeft - attempt_number

\* C30: for every request and every document list of N entries, provided
\* each outbound call returns or fails, the run reaches Done and returns its
\* single response after at most 5 enumeration attempts plus at most 25
\* call attempts per document (5 steps of at most 5 attempts each), that is
\* at most 5 + 25 * N attempts: every attempt uses up one of the attempts
\* left, of which there are never less than none.
C30_Termination ==
    /\ <>(pc = "Done")
    /\ [](/\ AttemptsLeft >= 0
          /\ Len(attemptLog) <= 5
          /\ pc = "Done" => escaped = NoExc /\ Len(response) = 1)
    /\ [][IsInvocation
            => /\ AttemptsLeft >= 1
               /\ IF call'.op = "fetch_documents"
                  THEN /\ pc = "Enumerating"
                       /\ pc' = "Enumerating" => AttemptsLeft' = AttemptsLeft - 1
                       /\ pc' = "PerDocument" => AttemptsLeft' = 25 * Len(documents')
                  ELSE AttemptsLeft' <= AttemptsLeft - 1]_vars
    /\ [][~IsInvocation => AttemptsLeft' <= AttemptsLeft]_vars

C30_Witness ==
    /\ Returned
    /\ N = 2
    /\ call.op = "add_summary_note"
    /\ call.doc = 2
    /\ call.result = "return"
    /\ Len(attemptLog) = 5
    /\ response[1].stored = 2


(***************************************************************************)
(* Properties of the callback manager under interleaving: backoff,         *)
(* capacity, placement, visibility, the reaper's race, ids, progress and   *)
(* shutdown.                                                               *)
(***************************************************************************)

\* this step is the background thread taking a record off pending and
\* starting an attempt for it
WorkerAttempts == worker.pc = "polling" /\ worker'.pc = "posting"

\* C31: after the r-th failed attempt of a callback the background worker
\* does not attempt that callback again before its next_retry time, that is
\* not before retry_delay * r has elapsed since the failure.
C31_Backoff ==
    [][WorkerAttempts
       => \/ callback'.next_retry = NoneId
          \/ now >= callback'.next_retry]_vars

\* a capacity that is fixed before the calls are known: one record less than
\* the calls of add_callback that are made
Capacity == MaxAdds - 1

\* C32: there is a fixed capacity such that, after any sequence of
\* add_callback calls and worker steps, the records held in the pending list,
\* and in pending, completed and failed together, never exceed it.
C32_BoundedQueue ==
    /\ Len(pending_callbacks) <= Capacity
    /\ Len(pending_callbacks) + Len(completed_callbacks) + Len(failed_callbacks) <= Capacity

\* how many elements of the list are the record of add_callback's call key
Occurrences(list, key) == Cardinality({i \in DOMAIN list : list[i].key = key})

\* C33: under any interleaving of add_callback, the worker,
\* retry_failed_callback and the reaper, each callback record is in at most
\* one of the lists pending, completed and failed, in none of them while the
\* worker is executing it, and its status matches its list: pending or
\* retrying in pending, completed in completed, failed in failed.
C33_Placement ==
    /\ \A key \in 1..created :
         /\ Occurrences(pending_callbacks, key) + Occurrences(completed_callbacks, key)
              + Occurrences(failed_callbacks, key) <= 1
         /\ callback.key = key
              => Occurrences(pending_callbacks, key) + Occurrences(completed_callbacks, key)
                   + Occurrences(failed_callbacks, key) = 0
    /\ \A i \in DOMAIN pending_callbacks :
         pending_callbacks[i].status \in {"pending", "retrying"}
    /\ \A i \in DOMAIN completed_callbacks : completed_callbacks[i].status = "completed"
    /\ \A i \in DOMAIN failed_callbacks : failed_callbacks[i].status = "failed"
    /\ callback # NoCallback => callback.status \in {"pending", "retrying"}

\* the worker is executing a replayed record while another record rests in
\* completed
C33_Witness ==
    /\ cbCall.op = "retry_failed_callback"
    /\ cbCall.result = "True"
    /\ callback # NoCallback
    /\ callback.id = cbCall.arg
    /\ callback.status = "pending"
    /\ completed_callbacks # <<>>
    /\ failed_callbacks = <<>>

\* C34: for every callback id returned by add_callback and not yet removed
\* by the reaper, get_callback_status(id) returns that callback's record at
\* every moment, also while the worker is executing an attempt for it, and
\* the total of get_callback_summary is the number of such callbacks.
C34_StatusVisibility ==
    /\ \A cb \in HeldRecords : get_callback_status(cb.id) = cb
    /\ get_callback_summary.total = Cardinality({cb.key : cb \in HeldRecords})

\* the record is older than the cutoff of the reaper's call under way
OlderThanCutoff(cb) == reaper.active /\ cb.completed_at < reaper.cutoff_time

\* C35: when clear_completed_callbacks runs concurrently with the worker
\* completing a callback, no completed callback younger than the age cutoff
\* is lost: every record the worker has put into completed is still in the
\* completed list after any step, unless it is older than the cutoff of a
\* reaper call.
C35_ReaperWorkerRace ==
    [][\A cb \in Range(completed_callbacks) :
         OlderThanCutoff(cb) \/ cb \in Range(completed_callbacks')]_vars

\* C36: for every sequence of add_callback calls without an explicit
\* callback_id, interleaved with worker steps, the ids returned are pairwise
\* distinct among the callbacks the manager still holds, also for two calls
\* within the same clock second with the same length of the pending list.
C36_IdUniqueness ==
    \A cb1, cb2 \in HeldRecords : cb1.id = cb2.id => cb1.key = cb2.key

\* the record of the call is in pending or is being executed
Waits(key) == Occurrences(pending_callbacks, key) > 0 \/ callback.key = key

\* the record of the call is in completed or in failed
Rests(key) ==
    Occurrences(completed_callbacks, key) > 0 \/ Occurrences(failed_callbacks, key) > 0

\* C37: while the worker is running and every POST returns or fails, every
\* callback added by add_callback eventually rests in the completed list or
\* in the failed list, under weak fairness of the worker and with finitely
\* many adds and manual replays; no callback stays pending or in flight
\* forever.
C37_Progress ==
    /\ \A key \in 1..MaxAdds : (Waits(key) /\ running) ~> (Rests(key) \/ ~running)
    /\ <>[](~running \/ (pending_callbacks = <<>> /\ callback = NoCallback))

\* a replayed callback was delivered at its last attempt and rests in
\* completed, with nothing left waiting
C37_Witness ==
    /\ cbCall.op = "retry_failed_callback"
    /\ cbCall.result = "True"
    /\ running
    /\ pending_callbacks = <<>>
    /\ callback = NoCallback
    /\ \E i \in DOMAIN completed_callbacks :
         /\ completed_callbacks[i].id = cbCall.arg
         /\ completed_callbacks[i].posts = max_retries + 1

\* this step is taken by the background thread
WorkerMoves == worker' # worker

\* C38: once shutdown() has returned, the background worker starts no new
\* callback attempt and makes no further change to the pending, completed or
\* failed lists, even if an attempt was in flight when shutdown was called;
\* callbacks still pending stay pending.
C38_Shutdown ==
    [][(~running /\ WorkerMoves)
       => /\ ~WorkerAttempts
          /\ UNCHANGED <<pending_callbacks, completed_callbacks, failed_callbacks>>]_vars

(***************************************************************************)
(* The note of a stored document, and the totality of the classifier       *)
(***************************************************************************)

\* C39: for every document counted in stored by a run, the document store
\* has received exactly one appended note from that run, even when a
\* note-append attempt was applied by the store but its response timed out
\* or failed and the call was retried.
C39_SingleNote ==
    [][stored' = stored + 1 => appended' = 1]_vars

\* the message strings of ERROR_MESSAGES
MessageStrings ==
    {CannedMessage(s) : s \in CannedCodes}
    \cup {"HTTP error occurred while processing the request.",
          "Network error: Failed to connect to the API endpoint.",
          "Timeout: The API request took too long to respond.",
          "Invalid response: The API returned data that could not be parsed.",
          "Unexpected response: The API response is missing required fields.",
          "Unexpected error: An unknown issue occurred during processing."}

\* C40: for every failure value and every optional status code, an
\* HTTP-status failure passed with no status code or with status code 0 and
\* a retry wrapper around any cause included, get_error_message returns one
\* of the canned message strings, never a value that is not a string such as
\* the per-status table.
C40_ClassifierTotality ==
    Classified => clsResult \in MessageStrings

====
